---------------------------- MODULE Spec2Model ----------------------------
(***************************************************************************)
(* A model of the client-side support layer of bolt.diy: the cookie-header *)
(* tokenizer parseCookies and the two typed accessors built on it          *)
(* (app/lib/api/cookies.ts, kept in src/unnamed/part_000, lines 241-311),  *)
(* the localStorage wrapper (src/unnamed/part_001), debounce, the lock     *)
(* checks of fileLocks (as src/unnamed/part_002 exercises them) and the    *)
(* modification box (app/components/workbench/InlineModificationBox.tsx).  *)
(* Each has a caller and a specification of its own over the same          *)
(* variables.                                                              *)
(*                                                                         *)
(* A JavaScript string is a sequence of characters.  A printable ASCII     *)
(* character is the one-character TLA+ string holding it; every other      *)
(* code point n is the string "U+n" (n in decimal).  A header is built by  *)
(* the caller piece by piece and then handed to one of the functions.      *)
(***************************************************************************)
EXTENDS Integers, Sequences, FiniteSets, TLC

VARIABLES
    header,     \* the argument being prepared: [isNull, text]
    npieces,    \* how many pieces the caller has put into header.text
    phase,      \* "input" while the header is built, "done" after the call
    call,       \* the function that was called, "none" before the call
    outcome,    \* what the call did: [threw, value]
    console,    \* the console.error reports the call emitted, in order
    pairName,   \* the name of the pair a caller is about to encode
    pairValue,  \* the value of that pair, before encoding
    heap,       \* the tables parseCookies has built, by object identity
    calls,      \* the calls of parseCookies so far: [header, threw, ref]
    store,      \* localStorage: the text kept under each key
    client,     \* whether window and localStorage exist (isClient)
    last,       \* the last call of a storage function, and how it ended
    written,    \* per key, what the caller last stored and has not undone
    wasAway,    \* whether window or localStorage has ever been taken away
    wait,       \* the delay the debounced function was made with, -1 before
    clock,      \* the time, in milliseconds
    timers,     \* the timeouts that are set and have not run: [id, due, arg]
    timer,      \* the timeout the debounced function last set, 0 for none
    lastId,     \* the identifier setTimeout last gave out
    dCalls,     \* the calls of the debounced function: [at, arg]
    fnCalls,    \* the invocations of fn: [at, arg, seen]
    made,       \* the debounced functions made side by side: [wait, timer, calls]
    win,        \* window: [defined, pathname], the pathname by its segments
    lockedFiles,\* what the functions of lib/persistence/lockedFiles answer
    lockLast,   \* the last call of a function of fileLocks, and how it ended
    element,    \* the prop element of InlineModificationBox, or null
    isVisible,  \* its prop isVisible
    input,      \* its state input, the text typed
    isAnimating,\* its state isAnimating
    listening,  \* whether its listeners are on the document
    boxLast,    \* the last event at the box, the input then, what its handler did
    rect,       \* element.rect: [left, top, width, height], in pixels
    innerSize,  \* window: [innerWidth, innerHeight]
    position    \* what getBoxPosition last returned: [computed, left, top]

\* What the caller of one function of the cookie module holds.
callerVars == <<header, npieces, phase, call, outcome, console>>

\* What the other callers hold.
\* What the callers of the storage functions hold, and the storage.
storageVars == <<store, client, last, written, wasAway>>

\* What the debounced function and its timers hold, and their history.
debounceVars == <<wait, clock, timers, timer, lastId, dCalls, fnCalls>>

\* What several debounced functions hold, besides the clock and timeouts.
sideVars == <<made>>

\* What the lock checks read, and what their caller holds.
lockVars == <<win, lockedFiles, lockLast>>

\* What InlineModificationBox holds, and what its parent and user see.
boxVars == <<element, isVisible, input, isAnimating, listening, boxLast>>

\* What getBoxPosition reads, and what it returned.
positionVars == <<rect, innerSize, position>>

\* What is outside the storage wrapper and the cookie module.
beyondStorage == <<debounceVars, sideVars, lockVars, boxVars, positionVars>>

\* What is outside debounce and the cookie module.
beyondDebounce == <<storageVars, lockVars, boxVars, positionVars>>

\* What is outside the cookie module.
elsewhere == <<storageVars, beyondStorage>>

beyondCaller == <<pairName, pairValue, heap, calls, elsewhere>>

\* What the cookie module and its callers hold.
cookieVars == <<callerVars, pairName, pairValue, heap, calls>>

\* What is outside the lock checks.
beyondLocks == <<cookieVars, storageVars, debounceVars, sideVars, boxVars, positionVars>>

\* What is outside the box.
beyondBox == <<cookieVars, storageVars, debounceVars, sideVars, lockVars, positionVars>>

\* What is outside the placing of the box.
beyondPosition == <<cookieVars, storageVars, debounceVars, sideVars, lockVars, boxVars>>

vars == <<callerVars, beyondCaller>>

---------------------------------------------------------------------------
(* Characters.                                                             *)

\* The printable ASCII characters, code points 32..126, in order (the grave
\* accent, code point 96, is written "U+96": the lexer rejects it in a
\* string).
Ascii ==
    << " ", "!", "\"", "#", "$", "%", "&", "'", "(", ")", "*", "+", ",", "-",
       ".", "/", "0", "1", "2", "3", "4", "5", "6", "7", "8", "9", ":", ";",
       "<", "=", ">", "?", "@", "A", "B", "C", "D", "E", "F", "G", "H", "I",
       "J", "K", "L", "M", "N", "O", "P", "Q", "R", "S", "T", "U", "V", "W",
       "X", "Y", "Z", "[", "\\", "]", "^", "_", "U+96", "a", "b", "c", "d", "e",
       "f", "g", "h", "i", "j", "k", "l", "m", "n", "o", "p", "q", "r", "s",
       "t", "u", "v", "w", "x", "y", "z", "{", "|", "}", "~" >>

\* String.fromCharCode: the character of code point n.
CharOf(n) == IF n >= 32 /\ n <= 126 THEN Ascii[n - 31] ELSE "U+" \o ToString(n)

\* The value of a hexadecimal digit, -1 for any other character.
HexVal(c) ==
    CASE c = "0" -> 0  [] c = "1" -> 1  [] c = "2" -> 2  [] c = "3" -> 3
      [] c = "4" -> 4  [] c = "5" -> 5  [] c = "6" -> 6  [] c = "7" -> 7
      [] c = "8" -> 8  [] c = "9" -> 9
      [] c \in {"a", "A"} -> 10  [] c \in {"b", "B"} -> 11
      [] c \in {"c", "C"} -> 12  [] c \in {"d", "D"} -> 13
      [] c \in {"e", "E"} -> 14  [] c \in {"f", "F"} -> 15
      [] OTHER -> -1

\* The code points String.prototype.trim removes (WhiteSpace and
\* LineTerminator of ECMA-262).
TrimCodes ==
    {9, 10, 11, 12, 13, 32, 160, 5760, 8232, 8233, 8239, 8287, 12288, 65279}
        \cup (8192 .. 8202)

IsTrimmed(c) == c \in {CharOf(n) : n \in TrimCodes}

---------------------------------------------------------------------------
(* String.prototype.trim, split and Array.prototype.join.                  *)

RECURSIVE TrimStart(_)
TrimStart(s) ==
    IF s # <<>> /\ IsTrimmed(Head(s)) THEN TrimStart(Tail(s)) ELSE s

RECURSIVE TrimEnd(_)
TrimEnd(s) ==
    IF s # <<>> /\ IsTrimmed(s[Len(s)])
    THEN TrimEnd(SubSeq(s, 1, Len(s) - 1))
    ELSE s

\* s.trim()
Trim(s) == TrimEnd(TrimStart(s))

\* s.split(sep) for a one-character separator: the pieces between the
\* separators, n separators giving n + 1 pieces ("" gives [""]).
RECURSIVE SplitFrom(_, _, _, _)
SplitFrom(s, sep, i, cur) ==
    IF i > Len(s) THEN <<cur>>
    ELSE IF s[i] = sep THEN <<cur>> \o SplitFrom(s, sep, i + 1, <<>>)
    ELSE SplitFrom(s, sep, i + 1, Append(cur, s[i]))

Split(s, sep) == SplitFrom(s, sep, 1, <<>>)

\* parts.join(sep)
RECURSIVE Join(_, _)
Join(parts, sep) ==
    IF parts = <<>> THEN <<>>
    ELSE IF Len(parts) = 1 THEN parts[1]
    ELSE parts[1] \o <<sep>> \o Join(Tail(parts), sep)

---------------------------------------------------------------------------
(* decodeURIComponent (ECMA-262, Decode with an empty reserved set): the   *)
(* result is [ok |-> TRUE, str |-> the decoded string], or ok = FALSE when *)
(* the call throws URIError.                                               *)

\* A '%' at i followed by two hexadecimal digits.
IsEscapeAt(s, i) ==
    /\ i + 2 <= Len(s)
    /\ s[i] = "%"
    /\ HexVal(s[i + 1]) >= 0
    /\ HexVal(s[i + 2]) >= 0

\* The byte the escape at i stands for.
ByteAt(s, i) == 16 * HexVal(s[i + 1]) + HexVal(s[i + 2])

\* The number of leading 1 bits of a byte (5 for five or more).
LeadingOnes(b) ==
    IF b < 128 THEN 0
    ELSE IF b < 192 THEN 1
    ELSE IF b < 224 THEN 2
    ELSE IF b < 240 THEN 3
    ELSE IF b < 248 THEN 4
    ELSE 5

\* The n - 1 escapes after the one at i are continuation bytes 10xxxxxx.
HasContinuations(s, i, n) ==
    \A j \in 1 .. (n - 1) :
        /\ IsEscapeAt(s, i + 3 * j)
        /\ ByteAt(s, i + 3 * j) \in 128 .. 191

\* The code point of the n-byte UTF-8 sequence whose first escape is at i.
RECURSIVE Utf8Tail(_, _, _, _)
Utf8Tail(s, i, n, acc) ==
    IF n = 1 THEN acc
    ELSE Utf8Tail(s, i + 3, n - 1, acc * 64 + (ByteAt(s, i + 3) - 128))

Utf8CodePoint(s, i, n) ==
    LET b == ByteAt(s, i)
        lead == IF n = 2 THEN b - 192 ELSE IF n = 3 THEN b - 224 ELSE b - 240
    IN  Utf8Tail(s, i, n, lead)

\* Not overlong, not a surrogate, not beyond U+10FFFF.
IsValidCodePoint(cp, n) ==
    CASE n = 2 -> cp >= 128
      [] n = 3 -> cp >= 2048 /\ cp \notin 55296 .. 57343
      [] n = 4 -> cp >= 65536 /\ cp <= 1114111
      [] OTHER -> FALSE

\* The UTF-16 code units of a code point.
CodeUnits(cp) ==
    IF cp < 65536 THEN <<CharOf(cp)>>
    ELSE << CharOf(55296 + ((cp - 65536) \div 1024)),
            CharOf(56320 + ((cp - 65536) % 1024)) >>

URIError == [ok |-> FALSE, str |-> <<>>]

RECURSIVE DecodeFrom(_, _, _)
DecodeFrom(s, i, acc) ==
    IF i > Len(s) THEN [ok |-> TRUE, str |-> acc]
    ELSE IF s[i] # "%" THEN DecodeFrom(s, i + 1, Append(acc, s[i]))
    ELSE IF ~IsEscapeAt(s, i) THEN URIError
    ELSE LET b == ByteAt(s, i)
             n == LeadingOnes(b)
         IN  IF n = 0 THEN DecodeFrom(s, i + 3, Append(acc, CharOf(b)))
             ELSE IF n = 1 \/ n > 4 THEN URIError
             ELSE IF ~HasContinuations(s, i, n) THEN URIError
             ELSE LET cp == Utf8CodePoint(s, i, n)
                  IN  IF ~IsValidCodePoint(cp, n) THEN URIError
                      ELSE DecodeFrom(s, i + 3 * n, acc \o CodeUnits(cp))

\* No decoding at all: the text as it stands.
decodeVerbatim(s) == [ok |-> TRUE, str |-> s]

decodeURIComponent(s) == DecodeFrom(s, 1, <<>>)

---------------------------------------------------------------------------
(* parseCookies.  The table is the object literal of line 242: a function  *)
(* from its own property names to their values.                            *)

\* const cookies: Record<string, string> = {}
EmptyObject == << >>

\* The property name "__proto__".
ProtoName == <<"_", "_", "p", "r", "o", "t", "o", "_", "_">>

\* obj[key] = value for a string value, on an ordinary object: the name
\* "__proto__" reaches the accessor Object.prototype.__proto__, whose setter
\* ignores a value that is neither an object nor null, so no own property
\* is made; every other name becomes (or overwrites) an own property.
ObjectSet(obj, key, value) ==
    IF key = ProtoName THEN obj
    ELSE [k \in (DOMAIN obj) \cup {key} |-> IF k = key THEN value ELSE obj[k]]

\* What a call did: it returned value, or it threw.
Returned(v) == [threw |-> FALSE, value |-> v]
Thrown == [threw |-> TRUE, value |-> EmptyObject]

\* cookieHeader.split(';').map((cookie) => cookie.trim())
Items(text) ==
    LET segs == Split(text, ";")
    IN  [i \in 1 .. Len(segs) |-> Trim(segs[i])]

\* items.forEach(...), from item i on, with the table built so far.
RECURSIVE ForEachItem(_, _, _)
ForEachItem(items, i, cookies) ==
    IF i > Len(items) THEN Returned(cookies)
    ELSE LET parts == Split(items[i], "=")
             name == Head(parts)
             rest == Tail(parts)
         IN  IF name # <<>> /\ Len(rest) > 0
             THEN LET decodedName == decodeURIComponent(Trim(name))
                      decodedValue == decodeURIComponent(Trim(Join(rest, "=")))
                  IN  IF ~decodedName.ok \/ ~decodedValue.ok THEN Thrown
                      ELSE ForEachItem(items, i + 1,
                               ObjectSet(cookies, decodedName.str, decodedValue.str))
             ELSE ForEachItem(items, i + 1, cookies)

\* A header is null or a string.
NullHeader == [isNull |-> TRUE, text |-> <<>>]
StringHeader(text) == [isNull |-> FALSE, text |-> text]

\* parseCookies without the guard of line 244: splitting null throws a
\* TypeError, splitting "" gives one empty item.
parseCookiesUnguarded(cookieHeader) ==
    IF cookieHeader.isNull THEN Thrown
    ELSE ForEachItem(Items(cookieHeader.text), 1, EmptyObject)

\* parseCookies with the decode step guarded: a decode failure gives the
\* empty table.
parseCookiesGuarded(cookieHeader) ==
    IF cookieHeader.isNull \/ cookieHeader.text = <<>> THEN Returned(EmptyObject)
    ELSE IF ForEachItem(Items(cookieHeader.text), 1, EmptyObject).threw
         THEN Returned(EmptyObject)
    ELSE ForEachItem(Items(cookieHeader.text), 1, EmptyObject)

parseCookies(cookieHeader) ==
    IF cookieHeader.isNull \/ cookieHeader.text = <<>>
    THEN Returned(EmptyObject)
    ELSE ForEachItem(Items(cookieHeader.text), 1, EmptyObject)

---------------------------------------------------------------------------
(* JSON.parse (ECMA-404 grammar).  A JSON value is a record with one      *)
(* field, named after its kind: it holds TRUE for null, the literal's      *)
(* characters for a boolean or a number, the characters of a string, the   *)
(* sequence of the elements of an array, and for an object the function    *)
(* from its property names to their values.                                *)

JsonNull == [null |-> TRUE]
JsonBoolean(lit) == [boolean |-> lit]
JsonNumber(lit) == [number |-> lit]
JsonString(s) == [string |-> s]
JsonArray(elems) == [array |-> elems]
JsonObject(members) == [object |-> members]

\* The kind of a JSON value.
KindOf(v) == CHOOSE k \in DOMAIN v : TRUE

\* The result of a parsing step: a value and the index after it, or a
\* failure (JSON.parse throws SyntaxError).
Parsed(v, next) == [ok |-> TRUE, val |-> v, next |-> next]
SyntaxError == [ok |-> FALSE, val |-> JsonNull, next |-> 0]

\* JSON whitespace: tab, line feed, carriage return, space.
IsJsonWhitespace(c) == c \in {CharOf(9), CharOf(10), CharOf(13), " "}

IsDigit(c) == c \in {"0", "1", "2", "3", "4", "5", "6", "7", "8", "9"}

\* A character that may not appear unescaped in a JSON string.
IsControl(c) == c \in {CharOf(n) : n \in 0 .. 31}

RECURSIVE SkipWhitespace(_, _)
SkipWhitespace(s, i) ==
    IF i <= Len(s) /\ IsJsonWhitespace(s[i]) THEN SkipWhitespace(s, i + 1) ELSE i

\* The index after the run of digits that starts at i (i when none does).
RECURSIVE SkipDigits(_, _)
SkipDigits(s, i) ==
    IF i <= Len(s) /\ IsDigit(s[i]) THEN SkipDigits(s, i + 1) ELSE i

\* s holds the characters of lit from index i on.
HasLiteralAt(s, i, lit) ==
    /\ i + Len(lit) - 1 <= Len(s)
    /\ SubSeq(s, i, i + Len(lit) - 1) = lit

\* A number whose first character is at i:
\* -? (0 | [1-9][0-9]*) (. [0-9]+)? ([eE] [+-]? [0-9]+)?
\* The exponent, when one starts at fracEnd.
NumberExponent(s, i, fracEnd, expStart) ==
    IF fracEnd > Len(s) \/ s[fracEnd] \notin {"e", "E"}
    THEN Parsed(JsonNumber(SubSeq(s, i, fracEnd - 1)), fracEnd)
    ELSE IF SkipDigits(s, expStart) = expStart THEN SyntaxError
    ELSE Parsed(JsonNumber(SubSeq(s, i, SkipDigits(s, expStart) - 1)),
                SkipDigits(s, expStart))

\* The part of the number after its fraction, which ends before fracEnd.
NumberAfterFraction(s, i, fracEnd) ==
    NumberExponent(s, i, fracEnd,
        IF fracEnd + 1 <= Len(s) /\ s[fracEnd + 1] \in {"+", "-"}
        THEN fracEnd + 2
        ELSE fracEnd + 1)

\* The part of the number after its integer part, which ends before intEnd.
NumberAfterInteger(s, i, intStart, intEnd) ==
    IF intEnd = intStart THEN SyntaxError
    ELSE IF intEnd > Len(s) \/ s[intEnd] # "." THEN NumberAfterFraction(s, i, intEnd)
    ELSE IF SkipDigits(s, intEnd + 1) = intEnd + 1 THEN SyntaxError
    ELSE NumberAfterFraction(s, i, SkipDigits(s, intEnd + 1))

\* The number whose digits start at intStart (after the sign, if any).
NumberAfterSign(s, i, intStart) ==
    NumberAfterInteger(s, i, intStart,
        IF intStart <= Len(s) /\ s[intStart] = "0"
        THEN intStart + 1
        ELSE SkipDigits(s, intStart))

ParseNumber(s, i) == NumberAfterSign(s, i, IF s[i] = "-" THEN i + 1 ELSE i)

\* The character an escape \c stands for, "" when there is no such escape.
Unescaped(c) ==
    CASE c \in {"\"", "\\", "/"} -> c
      [] c = "b" -> CharOf(8)
      [] c = "f" -> CharOf(12)
      [] c = "n" -> CharOf(10)
      [] c = "r" -> CharOf(13)
      [] c = "t" -> CharOf(9)
      [] OTHER -> ""

\* The character of a string that starts at i, escapes resolved, and the
\* index after it; ok = FALSE when no character may start there.
StringUnit(s, i) ==
    IF IsControl(s[i]) THEN [ok |-> FALSE, char |-> "", next |-> 0]
    ELSE IF s[i] # "\\" THEN [ok |-> TRUE, char |-> s[i], next |-> i + 1]
    ELSE IF i + 1 > Len(s) THEN [ok |-> FALSE, char |-> "", next |-> 0]
    ELSE IF s[i + 1] = "u"
         THEN IF /\ i + 5 <= Len(s)
                 /\ \A j \in 2 .. 5 : HexVal(s[i + j]) >= 0
              THEN [ok |-> TRUE,
                    char |-> CharOf(4096 * HexVal(s[i + 2]) + 256 * HexVal(s[i + 3])
                                    + 16 * HexVal(s[i + 4]) + HexVal(s[i + 5])),
                    next |-> i + 6]
              ELSE [ok |-> FALSE, char |-> "", next |-> 0]
    ELSE [ok |-> Unescaped(s[i + 1]) # "", char |-> Unescaped(s[i + 1]), next |-> i + 2]

\* The rest of a string whose opening quote is before i.
RECURSIVE ParseString(_, _, _)
ParseString(s, i, acc) ==
    IF i > Len(s) THEN SyntaxError
    ELSE IF s[i] = "\"" THEN Parsed(JsonString(acc), i + 1)
    ELSE IF ~StringUnit(s, i).ok THEN SyntaxError
    ELSE ParseString(s, StringUnit(s, i).next, Append(acc, StringUnit(s, i).char))

\* A property defined on the object JSON.parse is building: a later
\* duplicate name overwrites (CreateDataProperty, "__proto__" included).
DefineProperty(members, key, value) ==
    [k \in (DOMAIN members) \cup {key} |-> IF k = key THEN value ELSE members[k]]

\* The parser is a pushdown automaton.  It either expects a value at index
\* i ("value"), or holds the value val that ended before i and returns it
\* to the innermost open array or object ("reduce"); the stack holds the
\* open arrays and objects, innermost first.
Expecting(i, stack) ==
    [mode |-> "value", i |-> i, val |-> JsonNull, stack |-> stack]
Reducing(v, i, stack) ==
    [mode |-> "reduce", i |-> i, val |-> v, stack |-> stack]
ParserDone(v, i) == [mode |-> "done", i |-> i, val |-> v, stack |-> <<>>]
ParserFailed == [mode |-> "fail", i |-> 0, val |-> JsonNull, stack |-> <<>>]

\* An open array with the elements read so far; an open object with the
\* members read so far and the name of the member being read.
ArrayFrame(elems) == [container |-> "array", items |-> elems, key |-> <<>>]
ObjectFrame(members, key) == [container |-> "object", items |-> members, key |-> key]

\* After a string or a number was parsed (or was not).
AfterPrimitive(p, stack) ==
    IF p.ok THEN Reducing(p.val, p.next, stack) ELSE ParserFailed

\* After the name of a member was parsed: a ':' and then the value.
AfterKey(s, key, colon, members, stack) ==
    IF ~key.ok \/ colon > Len(s) THEN ParserFailed
    ELSE IF s[colon] # ":" THEN ParserFailed
    ELSE Expecting(SkipWhitespace(s, colon + 1),
                   <<ObjectFrame(members, key.val.string)>> \o stack)

\* A member of an object must start at j.
ExpectKey(s, j, members, stack) ==
    IF j > Len(s) THEN ParserFailed
    ELSE IF s[j] # "\"" THEN ParserFailed
    ELSE AfterKey(s, ParseString(s, j + 1, <<>>),
                  SkipWhitespace(s, ParseString(s, j + 1, <<>>).next),
                  members, stack)

\* After '[' and whitespace, at j.
OpenArray(s, j, stack) ==
    IF j <= Len(s) /\ s[j] = "]" THEN Reducing(JsonArray(<<>>), j + 1, stack)
    ELSE Expecting(j, <<ArrayFrame(<<>>)>> \o stack)

\* After '{' and whitespace, at j.
OpenObject(s, j, stack) ==
    IF j <= Len(s) /\ s[j] = "}" THEN Reducing(JsonObject(<<>>), j + 1, stack)
    ELSE ExpectKey(s, j, <<>>, stack)

\* The parser expects a value at i.
StepValue(s, i, stack) ==
    IF i > Len(s) THEN ParserFailed
    ELSE IF HasLiteralAt(s, i, <<"n", "u", "l", "l">>)
         THEN Reducing(JsonNull, i + 4, stack)
    ELSE IF HasLiteralAt(s, i, <<"t", "r", "u", "e">>)
         THEN Reducing(JsonBoolean(<<"t", "r", "u", "e">>), i + 4, stack)
    ELSE IF HasLiteralAt(s, i, <<"f", "a", "l", "s", "e">>)
         THEN Reducing(JsonBoolean(<<"f", "a", "l", "s", "e">>), i + 5, stack)
    ELSE IF s[i] = "\"" THEN AfterPrimitive(ParseString(s, i + 1, <<>>), stack)
    ELSE IF s[i] = "-" \/ IsDigit(s[i]) THEN AfterPrimitive(ParseNumber(s, i), stack)
    ELSE IF s[i] = "[" THEN OpenArray(s, SkipWhitespace(s, i + 1), stack)
    ELSE IF s[i] = "{" THEN OpenObject(s, SkipWhitespace(s, i + 1), stack)
    ELSE ParserFailed

\* The value v becomes an element of the open array top: at j the array
\* ends or another element follows.
AfterElement(s, j, elems, rest) ==
    IF s[j] = "]" THEN Reducing(JsonArray(elems), j + 1, rest)
    ELSE IF s[j] = "," THEN Expecting(SkipWhitespace(s, j + 1), <<ArrayFrame(elems)>> \o rest)
    ELSE ParserFailed

\* The value v becomes a member of the open object top: at j the object
\* ends or another member follows.
AfterMember(s, j, members, rest) ==
    IF s[j] = "}" THEN Reducing(JsonObject(members), j + 1, rest)
    ELSE IF s[j] = "," THEN ExpectKey(s, SkipWhitespace(s, j + 1), members, rest)
    ELSE ParserFailed

\* The parser holds the value v, which ended before j (whitespace skipped).
StepReduce(s, j, v, stack) ==
    IF stack = <<>> THEN ParserDone(v, j)
    ELSE IF j > Len(s) THEN ParserFailed
    ELSE IF Head(stack).container = "array"
         THEN AfterElement(s, j, Append(Head(stack).items, v), Tail(stack))
    ELSE AfterMember(s, j, DefineProperty(Head(stack).items, Head(stack).key, v),
                     Tail(stack))

ParserStep(s, st) ==
    IF st.mode = "value" THEN StepValue(s, st.i, st.stack)
    ELSE StepReduce(s, SkipWhitespace(s, st.i), st.val, st.stack)

RECURSIVE RunParser(_, _)
RunParser(s, st) ==
    IF st.mode \in {"done", "fail"} THEN st ELSE RunParser(s, ParserStep(s, st))

\* The text is one value between optional whitespace.
WholeText(text, st) ==
    IF st.mode = "done" /\ st.i = Len(text) + 1 THEN Parsed(st.val, st.i)
    ELSE SyntaxError

\* JSON.parse(text)
JSONparse(text) ==
    WholeText(text, RunParser(text, Expecting(SkipWhitespace(text, 1), <<>>)))

\* typeof parsed
TypeOf(v) ==
    IF KindOf(v) \in {"null", "array", "object"} THEN "object" ELSE KindOf(v)

---------------------------------------------------------------------------
(* JSON.stringify.  Besides the JSON values a caller may hand it undefined *)
(* and an object that refers to itself.  The result is a text, or          *)
(* undefined (for undefined itself), or a TypeError (for the cycle).  A    *)
(* number is held as its shortest literal, which is how it is written; a   *)
(* model object does not record the order in which its properties were     *)
(* made, and its text lists them in one fixed order.  The values of the    *)
(* model nest containers at most three deep.                               *)

Undefined == [undefined |-> TRUE]
Circular == [circular |-> TRUE]

Text(str) == [ok |-> TRUE, defined |-> TRUE, str |-> str]
NoText == [ok |-> TRUE, defined |-> FALSE, str |-> <<>>]
TypeError == [ok |-> FALSE, defined |-> FALSE, str |-> <<>>]

LowerHexDigits ==
    <<"0", "1", "2", "3", "4", "5", "6", "7", "8", "9", "a", "b", "c", "d", "e", "f">>

\* QuoteJSONString: what one character becomes between the quotes.
QuoteUnit(c) ==
    IF c = "\"" THEN <<"\\", "\"">>
    ELSE IF c = "\\" THEN <<"\\", "\\">>
    ELSE IF ~IsControl(c) THEN <<c>>
    ELSE LET n == CHOOSE k \in 0 .. 31 : CharOf(k) = c
         IN  CASE n = 8 -> <<"\\", "b">>
               [] n = 9 -> <<"\\", "t">>
               [] n = 10 -> <<"\\", "n">>
               [] n = 12 -> <<"\\", "f">>
               [] n = 13 -> <<"\\", "r">>
               [] OTHER -> <<"\\", "u", "0", "0", LowerHexDigits[(n \div 16) + 1],
                             LowerHexDigits[(n % 16) + 1]>>

\* The texts of a sequence, one after the other.
RECURSIVE Concat(_)
Concat(parts) == IF parts = <<>> THEN <<>> ELSE Head(parts) \o Concat(Tail(parts))

\* The characters between quotes as they are, none escaped.
QuoteVerbatim(s) == <<"\"">> \o s \o <<"\"">>

Quote(s) == <<"\"">> \o Concat([i \in 1 .. Len(s) |-> QuoteUnit(s[i])]) \o <<"\"">>

\* The elements of a set, in one fixed order.
RECURSIVE InOrder(_)
InOrder(S) ==
    IF S = {} THEN <<>>
    ELSE <<CHOOSE k \in S : TRUE>> \o InOrder(S \ {CHOOSE k \in S : TRUE})

\* The text of an array whose elements have the texts inner: undefined is
\* written null.
ArrayText(inner) ==
    IF \E i \in 1 .. Len(inner) : ~inner[i].ok THEN TypeError
    ELSE Text(<<"[">>
             \o Join([i \in 1 .. Len(inner) |->
                         IF inner[i].defined THEN inner[i].str ELSE <<"n", "u", "l", "l">>],
                     ",")
             \o <<"]">>)

\* The text of an object whose properties, in the order keys, have the
\* texts inner: a property that is undefined is left out.
ObjectText(keys, inner) ==
    IF \E i \in 1 .. Len(keys) : ~inner[i].ok THEN TypeError
    ELSE Text(<<"{">>
             \o Join(SelectSeq([i \in 1 .. Len(keys) |->
                                   IF inner[i].defined
                                   THEN Quote(keys[i]) \o <<":">> \o inner[i].str
                                   ELSE <<>>],
                               LAMBDA m : m # <<>>),
                     ",")
             \o <<"}">>)

\* The values a container holds.
Members(v) ==
    IF KindOf(v) = "array" THEN {v.array[i] : i \in 1 .. Len(v.array)}
    ELSE IF KindOf(v) = "object" THEN {v.object[k] : k \in DOMAIN v.object}
    ELSE {}

\* SerializeJSONProperty, the values inside a container having the texts
\* inner.
TextGiven(v, inner) ==
    CASE KindOf(v) = "null" -> Text(<<"n", "u", "l", "l">>)
      [] KindOf(v) = "boolean" -> Text(v.boolean)
      [] KindOf(v) = "number" -> Text(v.number)
      [] KindOf(v) = "string" -> Text(Quote(v.string))
      [] KindOf(v) = "undefined" -> NoText
      [] KindOf(v) = "circular" -> TypeError
      [] KindOf(v) = "array" ->
             ArrayText([i \in 1 .. Len(v.array) |-> inner[v.array[i]]])
      [] KindOf(v) = "object" ->
             LET keys == InOrder(DOMAIN v.object)
             IN  ObjectText(keys, [i \in 1 .. Len(keys) |-> inner[v.object[keys[i]]]])

\* The text of a value that holds no container with something in it, of
\* one that holds such values, and of one that holds those.
Stringify1(v) == TextGiven(v, [m \in Members(v) |-> TypeError])
Stringify2(v) == TextGiven(v, [m \in Members(v) |-> Stringify1(m)])

\* JSON.stringify(value)
JSONstringify(value) == TextGiven(value, [m \in Members(value) |-> Stringify2(m)])

---------------------------------------------------------------------------
(* The typed accessors.  A call returns a mapping or throws, and reports   *)
(* to console.error on the way.                                            *)

ApiKeysName == <<"a", "p", "i", "K", "e", "y", "s">>
ProvidersName == <<"p", "r", "o", "v", "i", "d", "e", "r", "s">>

\* obj has an own property key (the tables of parseCookies inherit no
\* property named apiKeys or providers).
HasOwn(obj, key) == key \in DOMAIN obj

\* !obj.key for a table of strings: the property is missing (undefined)
\* or holds the empty string.
\* A test of presence in place of the test of truthiness: the empty string
\* passes it.
IsMissing(obj, key) == ~HasOwn(obj, key)

IsFalsy(obj, key) == ~HasOwn(obj, key) \/ obj[key] = <<>>

\* What an accessor call did.
Finished(threw, value, reports) ==
    [threw |-> threw, value |-> value, reports |-> reports]

\* A console.error call: its message and the argument that follows it.
Report(message, detail) == [message |-> message, detail |-> detail]

getApiKeysFromCookie(cookieHeader) ==
    LET cookies == parseCookies(cookieHeader)
    IN  IF cookies.threw THEN Finished(TRUE, EmptyObject, <<>>)
        ELSE IF IsFalsy(cookies.value, ApiKeysName)
             THEN Finished(FALSE, EmptyObject, <<>>)
        ELSE LET parsed == JSONparse(cookies.value[ApiKeysName])
             IN  IF ~parsed.ok
                 THEN Finished(FALSE, EmptyObject,
                          <<Report("Failed to parse API keys from cookie:", "SyntaxError")>>)
                 ELSE IF KindOf(parsed.val) = "object"
                      THEN Finished(FALSE, parsed.val.object, <<>>)
                 ELSE Finished(FALSE, EmptyObject,
                          <<Report("Invalid API keys format in cookie - expected object, got:",
                                   TypeOf(parsed.val))>>)

getProviderSettingsFromCookie(cookieHeader) ==
    LET cookies == parseCookies(cookieHeader)
    IN  IF cookies.threw THEN Finished(TRUE, EmptyObject, <<>>)
        ELSE IF IsFalsy(cookies.value, ProvidersName)
             THEN Finished(FALSE, EmptyObject, <<>>)
        ELSE LET parsed == JSONparse(cookies.value[ProvidersName])
             IN  IF ~parsed.ok
                 THEN Finished(FALSE, EmptyObject,
                          <<Report("Failed to parse provider settings from cookie:",
                                   "SyntaxError")>>)
                 ELSE IF KindOf(parsed.val) = "object"
                      THEN Finished(FALSE, parsed.val.object, <<>>)
                 ELSE Finished(FALSE, EmptyObject,
                          <<Report("Invalid provider settings format in cookie - expected object, got:",
                                   TypeOf(parsed.val))>>)

---------------------------------------------------------------------------
(* The caller.  It builds a header out of pieces, or passes null, and      *)
(* calls one function with it.                                             *)

\* The longest header the caller builds, in pieces.
MaxPieces == 6

\* The pieces of a header handed to parseCookies: a name character, the
\* two separators, a blank, a well-formed escape (of "a"), a '%' that
\* starts no escape unless two hexadecimal digits follow, and the name
\* "__proto__" of the suite's own dangerous-keys case.
TokenizerPieces ==
    { <<"a">>, <<"=">>, <<";">>, <<" ">>, <<"%", "6", "1">>, <<"%">>, ProtoName }

NoCall == Returned(EmptyObject)

Init ==
    /\ header = StringHeader(<<>>)
    /\ npieces = 0
    /\ phase = "input"
    /\ call = "none"
    /\ outcome = NoCall
    /\ console = <<>>
    /\ pairName = <<>>
    /\ pairValue = <<>>
    /\ heap = <<>>
    /\ calls = <<>>
    /\ store = <<>>
    /\ client = TRUE
    /\ last = [op |-> "none"]
    /\ written = <<>>
    /\ wasAway = FALSE
    /\ wait = -1
    /\ clock = 0
    /\ timers = {}
    /\ timer = 0
    /\ lastId = 0
    /\ dCalls = <<>>
    /\ fnCalls = <<>>
    /\ made = <<>>
    /\ win = [defined |-> TRUE, pathname |-> <<>>]
    /\ lockedFiles = [isFileLocked |-> [locked |-> FALSE],
                      isPathInLockedFolder |-> [locked |-> FALSE],
                      isFolderLocked |-> [locked |-> FALSE],
                      getLockedItems |-> [items |-> {}]]
    /\ lockLast = [op |-> "none"]
    /\ element = [null |-> TRUE]
    /\ isVisible = FALSE
    /\ input = <<>>
    /\ isAnimating = FALSE
    /\ listening = FALSE
    /\ boxLast = [typed |-> <<>>, event |-> "mount", did |-> <<>>]
    /\ rect = [left |-> 0, top |-> 0, width |-> 0, height |-> 0]
    /\ innerSize = [innerWidth |-> 1024, innerHeight |-> 768]
    /\ position = [computed |-> FALSE, left |-> 0, top |-> 0]

\* The caller appends one piece of the set pieces to the header, which
\* holds fewer than max of them.
AppendPiece(pieces, max) ==
    /\ phase = "input"
    /\ ~header.isNull
    /\ npieces < max
    /\ \E p \in pieces : header' = StringHeader(header.text \o p)
    /\ npieces' = npieces + 1
    /\ UNCHANGED <<phase, call, outcome, console>>
    /\ UNCHANGED beyondCaller

\* The caller has no Cookie header to pass: the argument is null.
PassNull ==
    /\ phase = "input"
    /\ npieces = 0
    /\ ~header.isNull
    /\ header' = NullHeader
    /\ UNCHANGED <<npieces, phase, call, outcome, console>>
    /\ UNCHANGED beyondCaller

\* parseCookies(header)
CallParseCookies ==
    /\ phase = "input"
    /\ phase' = "done"
    /\ call' = "parseCookies"
    /\ outcome' = parseCookies(header)
    /\ UNCHANGED <<header, npieces, console>>
    /\ UNCHANGED beyondCaller

TypeTokenizerPiece == AppendPiece(TokenizerPieces, MaxPieces)

NextTokenizer == TypeTokenizerPiece \/ PassNull \/ CallParseCookies

SpecTokenizer == Init /\ [][NextTokenizer]_vars

\* The longest header handed to a typed accessor, in pieces.
MaxAccessorPieces == 4

\* The cookies a header handed to a typed accessor names.
CookieNames == {ApiKeysName, ProvidersName}

\* The pieces of the values in such a header: parts of JSON texts (an
\* object with a member, a number, null, a boolean, an array, a string),
\* the escaped text of the empty object, and a '%' that starts no escape.
ValuePieces ==
    { <<"{", "\"", "k", "\"", ":">>, <<"}">>, <<"1">>, <<"n", "u", "l", "l">>,
      <<"t", "r", "u", "e">>, <<"[", "1", "]">>, <<"\"", "s", "\"">>,
      <<"%", "7", "B", "%", "7", "D">>, <<"%">> }

\* The caller starts the cookie of some name, as document.cookie lists
\* cookies: "name=", after "; " when the header already holds text.
StartCookie ==
    /\ phase = "input"
    /\ ~header.isNull
    /\ npieces < MaxAccessorPieces
    /\ \E name \in CookieNames :
           header' = StringHeader(
               (IF header.text = <<>> THEN <<>> ELSE header.text \o <<";", " ">>)
                   \o name \o <<"=">>)
    /\ npieces' = npieces + 1
    /\ UNCHANGED <<phase, call, outcome, console>>
    /\ UNCHANGED beyondCaller

TypeValuePiece == AppendPiece(ValuePieces, MaxAccessorPieces)

\* getApiKeysFromCookie(header)
CallGetApiKeys ==
    /\ phase = "input"
    /\ phase' = "done"
    /\ call' = "getApiKeysFromCookie"
    /\ LET r == getApiKeysFromCookie(header)
       IN  /\ outcome' = [threw |-> r.threw, value |-> r.value]
           /\ console' = r.reports
    /\ UNCHANGED <<header, npieces>>
    /\ UNCHANGED beyondCaller

\* getProviderSettingsFromCookie(header)
CallGetProviderSettings ==
    /\ phase = "input"
    /\ phase' = "done"
    /\ call' = "getProviderSettingsFromCookie"
    /\ LET r == getProviderSettingsFromCookie(header)
       IN  /\ outcome' = [threw |-> r.threw, value |-> r.value]
           /\ console' = r.reports
    /\ UNCHANGED <<header, npieces>>
    /\ UNCHANGED beyondCaller

NextAccessor ==
    \/ StartCookie
    \/ TypeValuePiece
    \/ PassNull
    \/ CallGetApiKeys
    \/ CallGetProviderSettings

SpecAccessor == Init /\ [][NextAccessor]_vars

---------------------------------------------------------------------------
(* encodeURIComponent, with which a caller escapes a value before it puts  *)
(* it into a header.  The characters A-Z a-z 0-9 - _ . ! ~ * ' ( ) stand   *)
(* as they are; every other code point becomes the escapes %XX of its      *)
(* UTF-8 bytes, a surrogate pair counting as one code point; a surrogate   *)
(* without its partner makes the call throw URIError.                      *)

\* The code points of the characters a caller puts into a value: a letter,
\* a blank, the percent sign, the two separators of a header, a carriage
\* return, a two-byte and a three-byte character, and the two halves of a
\* surrogate pair.
ValueCodes == {97, 32, 37, 59, 61, 13, 233, 8364, 55357, 56960}

\* String.prototype.charCodeAt: the code point of a character.
CodeOf(c) == CHOOSE n \in (32 .. 126) \cup ValueCodes : CharOf(n) = c

IsUnreserved(n) ==
    \/ n \in 48 .. 57
    \/ n \in 65 .. 90
    \/ n \in 97 .. 122
    \/ n \in {45, 95, 46, 33, 126, 42, 39, 40, 41}

HexDigits ==
    <<"0", "1", "2", "3", "4", "5", "6", "7", "8", "9", "A", "B", "C", "D", "E", "F">>

\* The escape of one byte.
HexByte(b) == <<"%", HexDigits[(b \div 16) + 1], HexDigits[(b % 16) + 1]>>

\* The escapes of the UTF-8 bytes of a code point.
Escaped(cp) ==
    IF cp < 128 THEN HexByte(cp)
    ELSE IF cp < 2048
         THEN HexByte(192 + (cp \div 64)) \o HexByte(128 + (cp % 64))
    ELSE IF cp < 65536
         THEN HexByte(224 + (cp \div 4096))
                  \o HexByte(128 + ((cp \div 64) % 64))
                  \o HexByte(128 + (cp % 64))
    ELSE HexByte(240 + (cp \div 262144))
             \o HexByte(128 + ((cp \div 4096) % 64))
             \o HexByte(128 + ((cp \div 64) % 64))
             \o HexByte(128 + (cp % 64))

IsHighSurrogate(n) == n \in 55296 .. 56319
IsLowSurrogate(n) == n \in 56320 .. 57343

\* What the character at i becomes, and how many characters it takes.
EncodeAt(s, i) ==
    LET c == CodeOf(s[i])
    IN  IF IsUnreserved(c) THEN [ok |-> TRUE, str |-> <<s[i]>>, used |-> 1]
        ELSE IF IsLowSurrogate(c) THEN [ok |-> FALSE, str |-> <<>>, used |-> 0]
        ELSE IF IsHighSurrogate(c)
             THEN IF i + 1 <= Len(s) /\ IsLowSurrogate(CodeOf(s[i + 1]))
                  THEN [ok |-> TRUE,
                        str |-> Escaped(65536 + (c - 55296) * 1024
                                              + (CodeOf(s[i + 1]) - 56320)),
                        used |-> 2]
                  ELSE [ok |-> FALSE, str |-> <<>>, used |-> 0]
        ELSE [ok |-> TRUE, str |-> Escaped(c), used |-> 1]

RECURSIVE EncodeFrom(_, _, _)
EncodeFrom(s, i, acc) ==
    IF i > Len(s) THEN [ok |-> TRUE, str |-> acc]
    ELSE IF ~EncodeAt(s, i).ok THEN URIError
    ELSE EncodeFrom(s, i + EncodeAt(s, i).used, acc \o EncodeAt(s, i).str)

encodeURIComponent(s) == EncodeFrom(s, 1, <<>>)

---------------------------------------------------------------------------
(* The caller that builds a header from a name and an escaped value, as in *)
(* parseCookies('encoded=' + encodeURIComponent('hello world!')).          *)

\* The longest name, in pieces, and the longest value, in characters.
MaxNamePieces == 2
MaxValueLen == 2

\* The pieces of a name: a letter, a blank, an escape, a '%' that starts
\* none, the separator '=', and the name "__proto__".
NamePieces ==
    { <<"a">>, <<" ">>, <<"%", "6", "1">>, <<"%">>, <<"=">>, ProtoName }

TypeNamePiece ==
    /\ phase = "input"
    /\ npieces < MaxNamePieces
    /\ \E p \in NamePieces : pairName' = pairName \o p
    /\ npieces' = npieces + 1
    /\ UNCHANGED <<header, phase, call, outcome, console, pairValue, heap, calls, elsewhere>>

TypeValueCharacter ==
    /\ phase = "input"
    /\ Len(pairValue) < MaxValueLen
    /\ \E n \in ValueCodes : pairValue' = Append(pairValue, CharOf(n))
    /\ UNCHANGED <<callerVars, pairName, heap, calls, elsewhere>>

\* parseCookies(pairName + '=' + encodeURIComponent(pairValue)): when the
\* value cannot be encoded the expression throws before parseCookies is
\* called.
CallWithEncodedValue ==
    /\ phase = "input"
    /\ phase' = "done"
    /\ LET encoded == encodeURIComponent(pairValue)
           built == StringHeader(pairName \o <<"=">> \o encoded.str)
       IN  IF encoded.ok
           THEN /\ header' = built
                /\ call' = "parseCookies"
                /\ outcome' = parseCookies(built)
           ELSE /\ call' = "encodeURIComponent"
                /\ outcome' = Thrown
                /\ UNCHANGED header
    /\ UNCHANGED <<npieces, console, beyondCaller>>

NextRoundTrip == TypeNamePiece \/ TypeValueCharacter \/ CallWithEncodedValue

SpecRoundTrip == Init /\ [][NextRoundTrip]_vars

---------------------------------------------------------------------------
(* The caller that calls parseCookies several times and keeps the tables   *)
(* it got.  A table is an object: line 242 makes a new one in every call,  *)
(* and the caller holds a reference to it.                                 *)

\* The most calls the caller makes.
MaxCalls == 3

\* The headers it passes: none, the empty one, one pair, a pair with an
\* empty value, two pairs, and a pair whose value makes decoding throw.
SequenceHeaders ==
    { NullHeader,
      StringHeader(<<>>),
      StringHeader(<<"a", "=", "a">>),
      StringHeader(<<"a", "=">>),
      StringHeader(<<"a", "=", "a", ";", "b", "=", "a">>),
      StringHeader(<<"a", "=", "%">>) }

\* One object for all calls, in place of a new one in each.
SharedObject(objects) == 1

\* const cookies = {}: the reference of a new object.
NewObject(objects) == Len(objects) + 1

\* The objects after the object at ref has been given the entries of table.
Filled(objects, ref, table) ==
    [r \in (DOMAIN objects) \cup {ref} |-> IF r = ref THEN table ELSE objects[r]]

\* parseCookies(h), once more.  A call that throws returns no reference:
\* its object is garbage.
CallParseCookiesAgain ==
    /\ Len(calls) < MaxCalls
    /\ \E h \in SequenceHeaders :
           LET cookies == NewObject(heap)
               result == parseCookies(h)
           IN  /\ heap' = Filled(heap, cookies, result.value)
               /\ calls' = Append(calls,
                      [header |-> h, threw |-> result.threw, ref |-> cookies])
    /\ UNCHANGED <<callerVars, pairName, pairValue, elsewhere>>

NextSequence == CallParseCookiesAgain

SpecSequence == Init /\ [][NextSequence]_vars

---------------------------------------------------------------------------
(* The localStorage wrapper (app/lib/persistence/localStorage.ts, kept in  *)
(* src/unnamed/part_001).  localStorage is a function from keys to texts.  *)
(* A function of the wrapper is an operator of the key (and value), of the *)
(* storage st, of whether the code runs in a browser, and of whether the   *)
(* storage method it calls raises an error this time; it gives what the    *)
(* function returns, the storage afterwards, and whether logger.error was  *)
(* called.  No function of the wrapper throws: each runs its storage call  *)
(* inside try/catch.                                                       *)

\* isClient(): typeof window !== 'undefined' && typeof localStorage !== 'undefined'
isClient(env) == env

Ended(returned, st, logged) == [returned |-> returned, store |-> st, logged |-> logged]

\* localStorage.getItem(key): the text, or null.
getItem(st, key) == IF key \in DOMAIN st THEN JsonString(st[key]) ELSE JsonNull

\* localStorage.setItem(key, text)
setItem(st, key, text) ==
    [k \in (DOMAIN st) \cup {key} |-> IF k = key THEN text ELSE st[k]]

\* localStorage.removeItem(key)
removeItem(st, key) == [k \in (DOMAIN st) \ {key} |-> st[k]]

\* String(undefined), which setItem stores when handed undefined.
UndefinedText == <<"u", "n", "d", "e", "f", "i", "n", "e", "d">>

\* item ? ... : ... is taken for every text but the empty one.
IsTruthy(item) == item # JsonNull /\ item.string # <<>>

\* A read that removes what it read.
getLocalStorageDraining(key, st, env, raises) ==
    IF ~isClient(env) THEN Ended(JsonNull, st, FALSE)
    ELSE IF raises THEN Ended(JsonNull, st, TRUE)
    ELSE IF ~IsTruthy(getItem(st, key)) THEN Ended(JsonNull, st, FALSE)
    ELSE IF ~JSONparse(getItem(st, key).string).ok THEN Ended(JsonNull, st, TRUE)
    ELSE Ended(JSONparse(getItem(st, key).string).val, removeItem(st, key), FALSE)

getLocalStorage(key, st, env, raises) ==
    IF ~isClient(env) THEN Ended(JsonNull, st, FALSE)
    ELSE IF raises THEN Ended(JsonNull, st, TRUE)
    ELSE IF ~IsTruthy(getItem(st, key)) THEN Ended(JsonNull, st, FALSE)
    ELSE IF ~JSONparse(getItem(st, key).string).ok THEN Ended(JsonNull, st, TRUE)
    ELSE Ended(JSONparse(getItem(st, key).string).val, st, FALSE)

\* A set that reports success before it has stored anything.
setLocalStorageOptimistic(key, value, st, env, raises) ==
    IF ~isClient(env) THEN Ended(FALSE, st, FALSE)
    ELSE IF ~JSONstringify(value).ok \/ raises THEN Ended(TRUE, st, TRUE)
    ELSE Ended(TRUE,
               setItem(st, key, IF JSONstringify(value).defined
                                THEN JSONstringify(value).str ELSE UndefinedText),
               FALSE)

setLocalStorage(key, value, st, env, raises) ==
    IF ~isClient(env) THEN Ended(FALSE, st, FALSE)
    ELSE IF ~JSONstringify(value).ok \/ raises THEN Ended(FALSE, st, TRUE)
    ELSE Ended(TRUE,
               setItem(st, key, IF JSONstringify(value).defined
                                THEN JSONstringify(value).str ELSE UndefinedText),
               FALSE)

\* A removal that empties the storage.
removeLocalStorageSweeping(key, st, env, raises) ==
    IF ~isClient(env) THEN Ended(FALSE, st, FALSE)
    ELSE IF raises THEN Ended(FALSE, st, TRUE)
    ELSE Ended(TRUE, <<>>, FALSE)

removeLocalStorage(key, st, env, raises) ==
    IF ~isClient(env) THEN Ended(FALSE, st, FALSE)
    ELSE IF raises THEN Ended(FALSE, st, TRUE)
    ELSE Ended(TRUE, removeItem(st, key), FALSE)

\* A raw read that does not ask whether there is a localStorage.
getLocalStorageRawUnasked(key, st, env, raises) ==
    IF raises THEN Ended(JsonNull, st, TRUE)
    ELSE Ended(getItem(st, key), st, FALSE)

getLocalStorageRaw(key, st, env, raises) ==
    IF ~isClient(env) THEN Ended(JsonNull, st, FALSE)
    ELSE IF raises THEN Ended(JsonNull, st, TRUE)
    ELSE Ended(getItem(st, key), st, FALSE)

\* A raw set that stores the JSON text of the string.
setLocalStorageRawQuoted(key, value, st, env, raises) ==
    IF ~isClient(env) THEN Ended(FALSE, st, FALSE)
    ELSE IF raises THEN Ended(FALSE, st, TRUE)
    ELSE Ended(TRUE, setItem(st, key, Quote(value)), FALSE)

setLocalStorageRaw(key, value, st, env, raises) ==
    IF ~isClient(env) THEN Ended(FALSE, st, FALSE)
    ELSE IF raises THEN Ended(FALSE, st, TRUE)
    ELSE Ended(TRUE, setItem(st, key, value), FALSE)

\* A clear that removes the first key only.
clearLocalStorageFirstKey(st, env, raises) ==
    IF ~isClient(env) THEN Ended(FALSE, st, FALSE)
    ELSE IF raises THEN Ended(FALSE, st, TRUE)
    ELSE Ended(TRUE, removeItem(st, <<"a">>), FALSE)

clearLocalStorage(st, env, raises) ==
    IF ~isClient(env) THEN Ended(FALSE, st, FALSE)
    ELSE IF raises THEN Ended(FALSE, st, TRUE)
    ELSE Ended(TRUE, <<>>, FALSE)

---------------------------------------------------------------------------
(* The caller of the storage functions.  It calls them in any order, with  *)
(* keys, values and texts of its own, and remembers per key what it last   *)
(* stored with success and has not since removed or cleared.  Any call of  *)
(* a storage method may raise an error (a full quota, a corrupted store).  *)
(* The code may also run where there is no window: then it is so from the  *)
(* start.                                                                  *)

StorageKeys == {<<"a">>, <<"b">>}

\* The values handed to setLocalStorage: JSON values of every kind, one of
\* them nested, and the two that have no JSON text.
StoredValues ==
    { JsonNull,
      JsonBoolean(<<"f", "a", "l", "s", "e">>),
      JsonNumber(<<"0">>),
      JsonString(<<>>),
      JsonString(<<"a", "\"">>),
      JsonArray(<<JsonNumber(<<"1">>), JsonNull>>),
      JsonObject(<<"k">> :> JsonArray(<<JsonString(<<"s">>)>>)),
      Undefined,
      Circular }

\* The texts handed to setLocalStorageRaw: the empty one, one that is not
\* JSON, and one that is.
RawTexts == { <<>>, <<"r", "a", "w">>, <<"1", ".", "0">> }

\* The memory of the caller after a call on key that ended with returned.
Remembered(key, returned, note) ==
    IF returned # TRUE THEN written
    ELSE [k \in (DOMAIN written) \cup {key} |-> IF k = key THEN note ELSE written[k]]

Forgotten(key, returned) ==
    IF returned # TRUE THEN written
    ELSE [k \in (DOMAIN written) \ {key} |-> written[k]]

\* The code runs on the server: there is no window.
RenderOnServer ==
    /\ last.op = "none"
    /\ client
    /\ client' = FALSE
    /\ UNCHANGED <<store, last, written, wasAway, cookieVars, beyondStorage>>

CallGetLocalStorage ==
    /\ \E key \in StorageKeys, fault \in BOOLEAN :
           LET r == getLocalStorage(key, store, client, fault)
           IN  /\ store' = r.store
               /\ last' = [op |-> "getLocalStorage", key |-> key, fault |-> fault,
                           returned |-> r.returned, logged |-> r.logged]
    /\ UNCHANGED <<client, written, wasAway, cookieVars, beyondStorage>>

CallSetLocalStorage ==
    /\ \E key \in StorageKeys, value \in StoredValues, fault \in BOOLEAN :
           LET r == setLocalStorage(key, value, store, client, fault)
           IN  /\ store' = r.store
               /\ last' = [op |-> "setLocalStorage", key |-> key, value |-> value,
                           fault |-> fault, returned |-> r.returned,
                           logged |-> r.logged]
               /\ written' = Remembered(key, r.returned, [json |-> value])
    /\ UNCHANGED <<client, wasAway, cookieVars, beyondStorage>>

CallRemoveLocalStorage ==
    /\ \E key \in StorageKeys, fault \in BOOLEAN :
           LET r == removeLocalStorage(key, store, client, fault)
           IN  /\ store' = r.store
               /\ last' = [op |-> "removeLocalStorage", key |-> key, fault |-> fault,
                           returned |-> r.returned, logged |-> r.logged]
               /\ written' = Forgotten(key, r.returned)
    /\ UNCHANGED <<client, wasAway, cookieVars, beyondStorage>>

CallGetLocalStorageRaw ==
    /\ \E key \in StorageKeys, fault \in BOOLEAN :
           LET r == getLocalStorageRaw(key, store, client, fault)
           IN  /\ store' = r.store
               /\ last' = [op |-> "getLocalStorageRaw", key |-> key, fault |-> fault,
                           returned |-> r.returned, logged |-> r.logged]
    /\ UNCHANGED <<client, written, wasAway, cookieVars, beyondStorage>>

CallSetLocalStorageRaw ==
    /\ \E key \in StorageKeys, value \in RawTexts, fault \in BOOLEAN :
           LET r == setLocalStorageRaw(key, value, store, client, fault)
           IN  /\ store' = r.store
               /\ last' = [op |-> "setLocalStorageRaw", key |-> key, value |-> value,
                           fault |-> fault, returned |-> r.returned,
                           logged |-> r.logged]
               /\ written' = Remembered(key, r.returned, [raw |-> value])
    /\ UNCHANGED <<client, wasAway, cookieVars, beyondStorage>>

CallClearLocalStorage ==
    /\ \E fault \in BOOLEAN :
           LET r == clearLocalStorage(store, client, fault)
           IN  /\ store' = r.store
               /\ last' = [op |-> "clearLocalStorage", fault |-> fault,
                           returned |-> r.returned, logged |-> r.logged]
               /\ written' = IF r.returned THEN <<>> ELSE written
    /\ UNCHANGED <<client, wasAway, cookieVars, beyondStorage>>

NextStorage ==
    \/ RenderOnServer
    \/ CallGetLocalStorage
    \/ CallSetLocalStorage
    \/ CallRemoveLocalStorage
    \/ CallGetLocalStorageRaw
    \/ CallSetLocalStorageRaw
    \/ CallClearLocalStorage

SpecStorage == Init /\ [][NextStorage]_vars

---------------------------------------------------------------------------
(* The same caller where window and localStorage come and go between the   *)
(* calls, as when a test redefines globalThis.window: what is stored stays *)
(* stored, and isClient is asked in every call.                            *)

\* Object.defineProperty(globalThis, 'window', { value: undefined })
WindowGoes ==
    /\ client
    /\ client' = FALSE
    /\ wasAway' = TRUE
    /\ UNCHANGED <<store, last, written, cookieVars, beyondStorage>>

\* Object.defineProperty(globalThis, 'window', { value: { localStorage } })
WindowComes ==
    /\ ~client
    /\ wasAway
    /\ client' = TRUE
    /\ UNCHANGED <<store, last, written, wasAway, cookieVars, beyondStorage>>

NextAvailability ==
    \/ WindowGoes
    \/ WindowComes
    \/ CallGetLocalStorage
    \/ CallSetLocalStorage
    \/ CallRemoveLocalStorage
    \/ CallGetLocalStorageRaw
    \/ CallSetLocalStorageRaw
    \/ CallClearLocalStorage

SpecAvailability == Init /\ [][NextAvailability]_vars

---------------------------------------------------------------------------
(* debounce(fn, delay) (app/utils/debounce.ts; the file is not among the   *)
(* sources, its suite debounce.spec.ts is).  The debounced function keeps  *)
(* one timeout: a call clears the timeout it set before and sets a new one *)
(* that will invoke fn, delay milliseconds later, with the arguments of    *)
(* that call.  A delay of 0 is no exception (debounce.spec.ts, lines       *)
(* 139-150).  Time is the clock of the suite's fake timers: it moves when  *)
(* the caller advances it, and a timeout runs when the clock reaches the   *)
(* time it is due.                                                         *)

\* setTimeout(callback, delay) at time now, giving the timeout id; arg
\* stands for the callback.
setTimeout(pending, id, now, delay, arg) ==
    pending \cup {[id |-> id, due |-> now + delay, arg |-> arg]}

\* clearTimeout(id)
clearTimeout(pending, id) == {t \in pending : t.id # id}

\* A debounced function that sets a new timeout and leaves the old one.
debouncedPiling(pending, held, id, now, delay, arg) ==
    [timers |-> setTimeout(pending, id, now, delay, arg), timer |-> id, ran |-> <<>>]

\* A debounced function that is fn itself when the delay is 0.
debouncedEager(pending, held, id, now, delay, arg) ==
    IF delay = 0 THEN [timers |-> pending, timer |-> held, ran |-> <<arg>>]
    ELSE [timers |-> setTimeout(clearTimeout(pending, held), id, now, delay, arg),
          timer |-> id, ran |-> <<>>]

\* The debounced function, called with arg at time now: the timeouts and
\* the timeout it holds afterwards, and the arguments fn ran with during
\* the call.
debounced(pending, held, id, now, delay, arg) ==
    [timers |-> setTimeout(clearTimeout(pending, held), id, now, delay, arg),
     timer |-> id,
     ran |-> <<>>]

\* The timeout that runs first: the earliest due, the oldest among equals.
FirstDue(pending) ==
    CHOOSE t \in pending :
        \A u \in pending : t.due < u.due \/ (t.due = u.due /\ t.id <= u.id)

\* The timeouts due by the time until, in the order they run.
RECURSIVE DueBy(_, _)
DueBy(pending, until) ==
    IF {t \in pending : t.due <= until} = {} THEN <<>>
    ELSE <<FirstDue({t \in pending : t.due <= until})>>
             \o DueBy(pending \ {FirstDue({t \in pending : t.due <= until})}, until)

\* The longest delay, the latest time, the most calls and the longest
\* advance of the model.
MaxDelay == 2
MaxClock == 5
MaxDebouncedCalls == 4
MaxAdvance == 2

\* The arguments the caller passes.
DebouncedArgs == {"x", "y"}

\* const d = debounce(fn, delay)
CreateDebounced ==
    /\ wait = -1
    /\ \E delay \in 0 .. MaxDelay : wait' = delay
    /\ UNCHANGED <<clock, timers, timer, lastId, dCalls, fnCalls, cookieVars, sideVars, beyondDebounce>>

\* d(arg)
CallDebounced ==
    /\ wait >= 0
    /\ Len(dCalls) < MaxDebouncedCalls
    /\ \E arg \in DebouncedArgs :
           LET r == debounced(timers, timer, lastId + 1, clock, wait, arg)
           IN  /\ timers' = r.timers
               /\ timer' = r.timer
               /\ dCalls' = Append(dCalls, [at |-> clock, arg |-> arg])
               /\ fnCalls' = fnCalls \o
                      [i \in 1 .. Len(r.ran) |->
                          [at |-> clock, arg |-> r.ran[i], seen |-> Len(dCalls) + 1]]
    /\ lastId' = lastId + 1
    /\ UNCHANGED <<wait, clock, cookieVars, sideVars, beyondDebounce>>

\* vi.advanceTimersByTime(ms): the timeouts due by then run, in order,
\* each at the time it is due, and the clock ends ms later.
AdvanceTimersByTime ==
    /\ wait >= 0
    /\ \E ms \in 0 .. MaxAdvance :
           /\ clock + ms <= MaxClock
           /\ LET run == DueBy(timers, clock + ms)
              IN  /\ fnCalls' = fnCalls \o
                         [i \in 1 .. Len(run) |->
                             [at |-> IF run[i].due > clock THEN run[i].due ELSE clock,
                              arg |-> run[i].arg,
                              seen |-> Len(dCalls)]]
                  /\ timers' = {t \in timers : t.due > clock + ms}
           /\ clock' = clock + ms
    /\ UNCHANGED <<wait, timer, lastId, dCalls, cookieVars, sideVars, beyondDebounce>>

NextDebounce == CreateDebounced \/ CallDebounced \/ AdvanceTimersByTime

SpecDebounce == Init /\ [][NextDebounce]_vars

---------------------------------------------------------------------------
(* Several debounced functions side by side, as in                         *)
(* debounce(mockFn1, 100) and debounce(mockFn2, 300), or in               *)
(* delays.map((delay) => debounce(mockFn, delay)) where they wrap the same *)
(* fn.  Each has a delay and a timeout variable of its own; the clock, the *)
(* timeouts that are set and their identifiers are those of the one        *)
(* environment.  The callback of a timeout is [by, arg]: it invokes fn     *)
(* with arg, and was set by the by-th function.                            *)

\* How many debounced functions are made, the delays they are made with,
\* the most calls of them all together and the latest time.
MaxDebounced == 2
SideDelays == {0, 1, 2}
MaxSideCalls == 3
MaxSideClock == 4

\* A timeout variable that all debounced functions share: it holds the
\* timeout that was set last and has not run.
TimeoutOfAll(all, d, pending) ==
    IF pending = {} THEN 0
    ELSE (CHOOSE t \in pending : \A u \in pending : u.id <= t.id).id

\* The timeout variable of the d-th function.
TimeoutOf(all, d, pending) == all[d].timer

\* The calls made of all the functions together.
RECURSIVE CallsOfAll(_, _)
CallsOfAll(all, d) == IF d = 0 THEN 0 ELSE Len(all[d].calls) + CallsOfAll(all, d - 1)

\* debounce(fn, delay), once more
MakeDebounced ==
    /\ Len(made) < MaxDebounced
    /\ \E delay \in SideDelays :
           made' = Append(made, [wait |-> delay, timer |-> 0, calls |-> <<>>])
    /\ UNCHANGED <<wait, clock, timers, timer, lastId, dCalls, fnCalls, cookieVars,
                   beyondDebounce>>

\* debouncedFns[d](arg): the caller numbers its calls and passes the number.
CallOneDebounced ==
    /\ CallsOfAll(made, Len(made)) < MaxSideCalls
    /\ \E d \in 1 .. Len(made) :
           LET arg == CallsOfAll(made, Len(made)) + 1
               r == debounced(timers, TimeoutOf(made, d, timers), lastId + 1, clock,
                              made[d].wait, [by |-> d, arg |-> arg])
           IN  /\ timers' = r.timers
               /\ made' = [made EXCEPT ![d].timer = r.timer,
                                       ![d].calls = Append(@, [at |-> clock, arg |-> arg])]
               /\ fnCalls' = fnCalls \o
                      [i \in 1 .. Len(r.ran) |->
                          [at |-> clock, arg |-> r.ran[i],
                           seen |-> Len(made[d].calls) + 1]]
    /\ lastId' = lastId + 1
    /\ UNCHANGED <<wait, clock, timer, dCalls, cookieVars, beyondDebounce>>

\* vi.advanceTimersByTime(ms), with the timeouts of all the functions
AdvanceAllTimers ==
    /\ made # <<>>
    /\ \E ms \in 0 .. MaxAdvance :
           /\ clock + ms <= MaxSideClock
           /\ LET run == DueBy(timers, clock + ms)
              IN  /\ fnCalls' = fnCalls \o
                         [i \in 1 .. Len(run) |->
                             [at |-> IF run[i].due > clock THEN run[i].due ELSE clock,
                              arg |-> run[i].arg,
                              seen |-> Len(made[run[i].arg.by].calls)]]
                  /\ timers' = {t \in timers : t.due > clock + ms}
           /\ clock' = clock + ms
    /\ UNCHANGED <<wait, timer, lastId, dCalls, made, cookieVars, beyondDebounce>>

NextSideBySide == MakeDebounced \/ CallOneDebounced \/ AdvanceAllTimers

SpecSideBySide == Init /\ [][NextSideBySide]_vars

---------------------------------------------------------------------------
(* The lock checks of app/utils/fileLocks.ts.  The file is not among the   *)
(* sources; its suite (src/unnamed/part_002) is, and it replaces the       *)
(* functions of lib/persistence/lockedFiles by mocks that answer what the  *)
(* test says, whatever they are asked, or throw.  A check is an operator   *)
(* of its arguments, of the window and of what the mocks answer; it gives  *)
(* the result and the calls it made of the mocks, in order.  A pathname is *)
(* the sequence of its segments ('/chat/abc123' is <<"chat", "abc123">>);  *)
(* an optional argument is the sequence of the arguments after the first,  *)
(* empty when it is omitted.                                               *)

\* What a mock does when it throws.
Throws == [throws |-> TRUE]

\* { locked: false }
NotLocked == [locked |-> FALSE]

\* What a lock check gives: its result and its calls of the mocks.
Checked(result, asked) == [result |-> result, asked |-> asked]

\* One call of a mock.
Asked(fn, chatId, path) == [fn |-> fn, chatId |-> chatId, path |-> path]

\* getCurrentChatId()
getCurrentChatId(w) ==
    IF w.defined /\ Len(w.pathname) >= 2 /\ w.pathname[1] = "chat" /\ w.pathname[2] # ""
    THEN w.pathname[2]
    ELSE "default"

\* The chat id a check works with.
ChatIdOf(rest, w) == IF rest = <<>> THEN getCurrentChatId(w) ELSE rest[1]

\* A check of a file that asks about the folders first.
isFileLockedFolderFirst(filePath, rest, w, mocks) ==
    LET chatId == ChatIdOf(rest, w)
        inFolder == Asked("isPathInLockedFolder", chatId, filePath)
        file == Asked("isFileLocked", chatId, filePath)
    IN  IF mocks.isPathInLockedFolder = Throws THEN Checked(NotLocked, <<inFolder>>)
        ELSE IF mocks.isPathInLockedFolder.locked
             THEN Checked(mocks.isPathInLockedFolder, <<inFolder>>)
        ELSE IF mocks.isFileLocked = Throws THEN Checked(NotLocked, <<inFolder, file>>)
        ELSE IF mocks.isFileLocked.locked
             THEN Checked(mocks.isFileLocked, <<inFolder, file>>)
        ELSE Checked(NotLocked, <<inFolder, file>>)

\* isFileLocked(filePath, chatId?)
isFileLocked(filePath, rest, w, mocks) ==
    LET chatId == ChatIdOf(rest, w)
        file == Asked("isFileLocked", chatId, filePath)
        inFolder == Asked("isPathInLockedFolder", chatId, filePath)
    IN  IF mocks.isFileLocked = Throws THEN Checked(NotLocked, <<file>>)
        ELSE IF mocks.isFileLocked.locked THEN Checked(mocks.isFileLocked, <<file>>)
        ELSE IF mocks.isPathInLockedFolder = Throws
             THEN Checked(NotLocked, <<file, inFolder>>)
        ELSE IF mocks.isPathInLockedFolder.locked
             THEN Checked(mocks.isPathInLockedFolder, <<file, inFolder>>)
        ELSE Checked(NotLocked, <<file, inFolder>>)

\* isFolderLocked(folderPath, chatId?)
isFolderLocked(folderPath, rest, w, mocks) ==
    LET folder == Asked("isFolderLocked", ChatIdOf(rest, w), folderPath)
    IN  IF mocks.isFolderLocked = Throws THEN Checked(NotLocked, <<folder>>)
        ELSE IF mocks.isFolderLocked.locked THEN Checked(mocks.isFolderLocked, <<folder>>)
        ELSE Checked(NotLocked, <<folder>>)

\* A check that is content with any locked item.
hasLockedItemsOfAnyChat(rest, w, mocks) ==
    IF mocks.getLockedItems = Throws THEN FALSE
    ELSE mocks.getLockedItems.items # {}

\* hasLockedItems(chatId?)
hasLockedItems(rest, w, mocks) ==
    IF mocks.getLockedItems = Throws THEN FALSE
    ELSE \E item \in mocks.getLockedItems.items : item.chatId = ChatIdOf(rest, w)

\* The pathnames the window is given, the chat ids and paths of the calls,
\* the owners of locks, and the items that can be locked.
Pathnames == { <<>>, <<"settings">>, <<"chat", "">>,
               <<"chat", "test-chat">>, <<"chat", "chat-1">> }
ChatIds == {"test-chat", "chat-4", "default"}
Paths == {"/src/index.ts", "/src"}
LockAnswers == {NotLocked, [locked |-> TRUE, lockedBy |-> "user123"],
                [locked |-> TRUE, lockedBy |-> "folder-lock"], Throws}
LockableItems ==
    {[chatId |-> c, path |-> "/src/index.ts", isFolder |-> FALSE] :
        c \in {"test-chat", "chat-1"}}

\* Object.defineProperty(globalThis, 'window', { value: ... })
DefineWindow ==
    /\ \/ \E p \in Pathnames : win' = [defined |-> TRUE, pathname |-> p]
       \/ win' = [defined |-> FALSE, pathname |-> <<>>]
    /\ win' # win
    /\ UNCHANGED <<lockedFiles, lockLast, beyondLocks>>

\* vi.mocked(lockedFiles.isFileLocked).mockReturnValue(...), or
\* mockImplementation(() => { throw ... })
MockIsFileLocked ==
    /\ \E a \in LockAnswers : lockedFiles' = [lockedFiles EXCEPT !.isFileLocked = a]
    /\ lockedFiles' # lockedFiles
    /\ UNCHANGED <<win, lockLast, beyondLocks>>

\* vi.mocked(lockedFiles.isPathInLockedFolder).mockReturnValue(...)
MockIsPathInLockedFolder ==
    /\ \E a \in LockAnswers :
           lockedFiles' = [lockedFiles EXCEPT !.isPathInLockedFolder = a]
    /\ lockedFiles' # lockedFiles
    /\ UNCHANGED <<win, lockLast, beyondLocks>>

\* vi.mocked(lockedFiles.isFolderLocked).mockReturnValue(...)
MockIsFolderLocked ==
    /\ \E a \in {NotLocked, [locked |-> TRUE, lockedBy |-> "user123"], Throws} :
           lockedFiles' = [lockedFiles EXCEPT !.isFolderLocked = a]
    /\ lockedFiles' # lockedFiles
    /\ UNCHANGED <<win, lockLast, beyondLocks>>

\* vi.mocked(lockedFiles.getLockedItems).mockReturnValue([...])
MockGetLockedItems ==
    /\ \/ \E items \in SUBSET LockableItems :
              lockedFiles' = [lockedFiles EXCEPT !.getLockedItems = [items |-> items]]
       \/ lockedFiles' = [lockedFiles EXCEPT !.getLockedItems = Throws]
    /\ lockedFiles' # lockedFiles
    /\ UNCHANGED <<win, lockLast, beyondLocks>>

\* The arguments after the first: none, or a chat id.
RestArguments == {<<>>} \cup {<<c>> : c \in ChatIds}

\* isFileLocked(path) or isFileLocked(path, chatId)
CallIsFileLocked ==
    /\ \E path \in Paths, rest \in RestArguments :
           lockLast' = [op |-> "isFileLocked", path |-> path, rest |-> rest,
                        did |-> isFileLocked(path, rest, win, lockedFiles)]
    /\ UNCHANGED <<win, lockedFiles, beyondLocks>>

\* isFolderLocked(path) or isFolderLocked(path, chatId)
CallIsFolderLocked ==
    /\ \E path \in Paths, rest \in RestArguments :
           lockLast' = [op |-> "isFolderLocked", path |-> path, rest |-> rest,
                        did |-> isFolderLocked(path, rest, win, lockedFiles)]
    /\ UNCHANGED <<win, lockedFiles, beyondLocks>>

\* hasLockedItems() or hasLockedItems(chatId)
CallHasLockedItems ==
    /\ \E rest \in RestArguments :
           lockLast' = [op |-> "hasLockedItems", rest |-> rest,
                        returned |-> hasLockedItems(rest, win, lockedFiles)]
    /\ UNCHANGED <<win, lockedFiles, beyondLocks>>

NextLocks ==
    \/ DefineWindow
    \/ MockIsFileLocked
    \/ MockIsPathInLockedFolder
    \/ MockIsFolderLocked
    \/ MockGetLockedItems
    \/ CallIsFileLocked
    \/ CallIsFolderLocked
    \/ CallHasLockedItems

SpecLocks == Init /\ [][NextLocks]_vars

---------------------------------------------------------------------------
(* InlineModificationBox (app/components/workbench/InlineModificationBox   *)
(* .tsx).  The parent gives the props element and isVisible and the        *)
(* callbacks onClose and onSend; the component keeps the state input and   *)
(* isAnimating, and listens on the document while isVisible holds.  A      *)
(* change of props or state renders the component, and the effects whose   *)
(* dependencies changed run with that render, before the next event.  The  *)
(* box is in the document when isVisible holds and element is not null     *)
(* (line 53).  A handler is an operator that gives what it does, in order: *)
(* calls of the callbacks and of setInput.  Where the focus is, which the   *)
(* timeout of line 20 sets, is not part of the model.                      *)

\* element: null
NoElement == [null |-> TRUE]

\* The elements the inspector passes: without id and class, with both (two
\* classes), and with a class attribute that begins with a blank.
Elements ==
    { [tagName |-> <<"D", "I", "V">>, id |-> <<>>, className |-> <<>>],
      [tagName |-> <<"D", "I", "V">>, id |-> <<"m">>, className |-> <<"b", " ", "c">>],
      [tagName |-> <<"P">>, id |-> <<>>, className |-> <<" ", "c">>] }

\* String.prototype.toLowerCase, for the letters of the tag names.
ToLowerCase(s) ==
    [i \in 1 .. Len(s) |->
        CASE s[i] = "D" -> "d"
          [] s[i] = "I" -> "i"
          [] s[i] = "V" -> "v"
          [] s[i] = "P" -> "p"
          [] OTHER -> s[i]]

\* Lines 60-62: the tag name in lower case, '#' and the id when there is
\* one, '.' and the first class when there is a class attribute.
elementDescription(el) ==
    ToLowerCase(el.tagName)
        \o (IF el.id # <<>> THEN <<"#">> \o el.id ELSE <<>>)
        \o (IF el.className # <<>> THEN <<".">> \o Split(el.className, " ")[1] ELSE <<>>)

\* The fixed parts of the message of line 63.
MODIFY_THE_SELECTED == <<"M", "o", "d", "i", "f", "y", " ", "t", "h", "e", " ", "s", "e", "l", "e", "c", "t", "e", "d", " ">>
ELEMENT_COLON == <<" ", "e", "l", "e", "m", "e", "n", "t", ":", " ">>

\* Line 63
message(el, text) ==
    MODIFY_THE_SELECTED \o elementDescription(el) \o ELEMENT_COLON \o text

\* What a handler does.
CallOnSend(msg) == [does |-> "onSend", with |-> msg]
SetInput(text) == [does |-> "setInput", with |-> text]
CallOnClose == [does |-> "onClose", with |-> <<>>]

\* A handleSend that sends whatever is not the empty string.
handleSendUntrimmed(text, el) ==
    IF text # <<>>
    THEN <<CallOnSend(message(el, text)), SetInput(<<>>), CallOnClose>>
    ELSE <<>>

\* handleSend, lines 57-68
handleSend(text, el) ==
    IF Trim(text) # <<>>
    THEN <<CallOnSend(message(el, text)), SetInput(<<>>), CallOnClose>>
    ELSE <<>>

\* handleClickOutside, lines 30-34: rendered says that boxRef.current is
\* the box, inside that the box contains the target.
handleClickOutside(rendered, inside) ==
    IF rendered /\ ~inside THEN <<CallOnClose>> ELSE <<>>

\* handleEscape, lines 36-40
handleEscape(key) == IF key = "Escape" THEN <<CallOnClose>> ELSE <<>>

\* The box is rendered (line 53).
IsRendered(visible, el) == visible /\ el # NoElement

\* An effect of lines 17-27 that leaves the input as it is.
VisibilityEffectKeeping(visible, el, text) ==
    IF visible /\ el # NoElement
    THEN [isAnimating |-> TRUE, input |-> text]
    ELSE [isAnimating |-> FALSE, input |-> text]

\* The effect of lines 17-27, run when isVisible or element changed: the
\* state it leaves.
VisibilityEffect(visible, el, text) ==
    IF visible /\ el # NoElement
    THEN [isAnimating |-> TRUE, input |-> text]
    ELSE [isAnimating |-> FALSE, input |-> <<>>]

\* An effect of lines 29-51 that adds the listeners whatever isVisible is.
ListenersEffectAlways(visible) == TRUE

\* The effect of lines 29-51, run when isVisible changed: its cleanup has
\* removed the listeners, and it adds them again when isVisible holds.
ListenersEffect(visible) == visible

\* The input after a handler has run.
InputAfter(did, text) ==
    IF \E i \in 1 .. Len(did) : did[i].does = "setInput"
    THEN did[CHOOSE i \in 1 .. Len(did) :
                 /\ did[i].does = "setInput"
                 /\ \A j \in (i + 1) .. Len(did) : did[j].does # "setInput"].with
    ELSE text

\* The longest input typed, and the characters typed.
MaxInputLen == 2
TypedCharacters == {"a", " "}

\* The parent renders the box with isVisible true.
ShowBox ==
    /\ ~isVisible
    /\ isVisible' = TRUE
    /\ isAnimating' = VisibilityEffect(TRUE, element, input).isAnimating
    /\ input' = VisibilityEffect(TRUE, element, input).input
    /\ listening' = ListenersEffect(TRUE)
    /\ boxLast' = [typed |-> input, event |-> "show", did |-> <<>>]
    /\ UNCHANGED <<element, beyondBox>>

\* The parent renders the box with isVisible false.
HideBox ==
    /\ isVisible
    /\ isVisible' = FALSE
    /\ isAnimating' = VisibilityEffect(FALSE, element, input).isAnimating
    /\ input' = VisibilityEffect(FALSE, element, input).input
    /\ listening' = ListenersEffect(FALSE)
    /\ boxLast' = [typed |-> input, event |-> "hide", did |-> <<>>]
    /\ UNCHANGED <<element, beyondBox>>

\* The parent renders the box with another element, or with null.
ChangeElement ==
    /\ \E el \in Elements \cup {NoElement} :
           /\ el # element
           /\ element' = el
           /\ isAnimating' = VisibilityEffect(isVisible, el, input).isAnimating
           /\ input' = VisibilityEffect(isVisible, el, input).input
    /\ boxLast' = [typed |-> input, event |-> "element", did |-> <<>>]
    /\ UNCHANGED <<isVisible, listening, beyondBox>>

\* onChange of the input (line 133): the user types a character.
TypeIntoInput ==
    /\ IsRendered(isVisible, element)
    /\ Len(input) < MaxInputLen
    /\ \E c \in TypedCharacters : input' = Append(input, c)
    /\ boxLast' = [typed |-> input, event |-> "change", did |-> <<>>]
    /\ UNCHANGED <<element, isVisible, isAnimating, listening, beyondBox>>

\* onKeyDown of the input (lines 134-139): Enter, with or without Shift.
\* The event reaches the document too, where it is no Escape.
PressEnter ==
    /\ IsRendered(isVisible, element)
    /\ \E shiftKey \in BOOLEAN :
           LET did == (IF ~shiftKey THEN handleSend(input, element) ELSE <<>>)
                          \o (IF listening THEN handleEscape("Enter") ELSE <<>>)
           IN  /\ boxLast' = [typed |-> input,
                              event |-> IF shiftKey THEN "shift+enter" ELSE "enter",
                              did |-> did]
               /\ input' = InputAfter(did, input)
    /\ UNCHANGED <<element, isVisible, isAnimating, listening, beyondBox>>

\* onClick of the Send button (line 149), which is disabled while the
\* input is blank (line 150).  The mouse-down of the click reaches the
\* document first, with a target inside the box.
ClickSend ==
    /\ IsRendered(isVisible, element)
    /\ Trim(input) # <<>>
    /\ LET did == (IF listening THEN handleClickOutside(TRUE, TRUE) ELSE <<>>)
                      \o handleSend(input, element)
       IN  /\ boxLast' = [typed |-> input, event |-> "click", did |-> did]
           /\ input' = InputAfter(did, input)
    /\ UNCHANGED <<element, isVisible, isAnimating, listening, beyondBox>>

\* keydown of Escape, anywhere in the document
PressEscape ==
    /\ boxLast' = [typed |-> input, event |-> "escape",
                   did |-> IF listening THEN handleEscape("Escape") ELSE <<>>]
    /\ UNCHANGED <<element, isVisible, input, isAnimating, listening, beyondBox>>

\* mousedown in the document, inside the box (when there is one) or not
MouseDown ==
    /\ \E inside \in BOOLEAN :
           /\ inside => IsRendered(isVisible, element)
           /\ boxLast' =
                  [typed |-> input,
                   event |-> IF inside THEN "mousedown inside" ELSE "mousedown outside",
                   did |-> IF listening
                           THEN handleClickOutside(IsRendered(isVisible, element), inside)
                           ELSE <<>>]
    /\ UNCHANGED <<element, isVisible, input, isAnimating, listening, beyondBox>>

NextBox ==
    \/ ShowBox
    \/ HideBox
    \/ ChangeElement
    \/ TypeIntoInput
    \/ PressEnter
    \/ ClickSend
    \/ PressEscape
    \/ MouseDown

SpecBox == Init /\ [][NextBox]_vars

---------------------------------------------------------------------------
(* getBoxPosition (InlineModificationBox.tsx, lines 70-95): where the box  *)
(* is put, from the rectangle of the element and the size of the window.   *)
(* Lengths are whole pixels and the widths of the model are even, so that  *)
(* rect.width / 2 is a whole number.                                       *)

boxWidth == 400
boxHeight == 120
padding == 20

\* Lines 81-87: the left edge after the two adjustments.
AdjustedLeft(left, innerWidth) ==
    LET atLeastPadding == IF left < padding THEN padding ELSE left
    IN  IF atLeastPadding + boxWidth > innerWidth - padding
        THEN innerWidth - boxWidth - padding
        ELSE atLeastPadding

\* Lines 90-92: the top edge, above the element when there is no room
\* below.
AdjustedTop(top, r, innerHeight) ==
    IF top + boxHeight > innerHeight - padding
    THEN r.top - boxHeight - padding
    ELSE top

getBoxPosition(r, size) ==
    [computed |-> TRUE,
     left |-> AdjustedLeft(r.left + r.width \div 2 - boxWidth \div 2, size.innerWidth),
     top |-> AdjustedTop(r.top + r.height + padding, r, size.innerHeight)]

\* The rectangles of the elements and the sizes of the window.
Rects ==
    [left : {-50, 0, 100, 900}, top : {-10, 0, 100, 500, 700},
     width : {0, 200, 2000}, height : {0, 20, 600}]
WindowSizes == [innerWidth : {300, 440, 1024}, innerHeight : {100, 768}]

\* The inspector passes an element with another rectangle.
MeasureElement ==
    /\ \E r \in Rects : r # rect /\ rect' = r
    /\ UNCHANGED <<innerSize, position, beyondPosition>>

\* The user resizes the window.
ResizeWindow ==
    /\ \E size \in WindowSizes : size # innerSize /\ innerSize' = size
    /\ UNCHANGED <<rect, position, beyondPosition>>

\* const position = getBoxPosition() (line 97)
CallGetBoxPosition ==
    /\ position' = getBoxPosition(rect, innerSize)
    /\ UNCHANGED <<rect, innerSize, beyondPosition>>

NextPosition == MeasureElement \/ ResizeWindow \/ CallGetBoxPosition

SpecPosition == Init /\ [][NextPosition]_vars

---------------------------------------------------------------------------
(* The vocabulary of the claims about the tokenizer, after the             *)
(* specification's section 4.1: the segments of a header, the first '=' of *)
(* a segment, the text before and after it, and what stripping the outer   *)
(* whitespace leaves.  None of it is used by the model of the code.        *)

\* The index of the first c in s, 0 when s holds none.
FirstIndexOf(s, c) ==
    IF \E i \in 1 .. Len(s) : s[i] = c
    THEN CHOOSE i \in 1 .. Len(s) : s[i] = c /\ \A j \in 1 .. (i - 1) : s[j] # c
    ELSE 0

\* s without its leading and trailing whitespace: the stretch from the
\* first to the last character that is not whitespace.
Stripped(s) ==
    LET solid == {i \in 1 .. Len(s) : ~IsTrimmed(s[i])}
    IN  IF solid = {} THEN <<>>
        ELSE SubSeq(s, CHOOSE i \in solid : \A j \in solid : i <= j,
                       CHOOSE i \in solid : \A j \in solid : j <= i)

\* The segments of the header: the stretches between its semicolons.
SegmentsOf(h) == IF h.isNull \/ h.text = <<>> THEN <<>> ELSE Split(h.text, ";")

\* The text of a segment before and after its first '='.
RawName(seg) == SubSeq(seg, 1, FirstIndexOf(seg, "=") - 1)
RawValue(seg) == SubSeq(seg, FirstIndexOf(seg, "=") + 1, Len(seg))

\* A segment that has an '=' and a name that is not empty.
IsRetained(seg) == FirstIndexOf(seg, "=") > 0 /\ Stripped(RawName(seg)) # <<>>

\* The decoded name and value of a retained segment.
NameOf(seg) == decodeURIComponent(Stripped(RawName(seg)))
ValueOf(seg) == decodeURIComponent(Stripped(RawValue(seg)))

\* The indices of the retained segments of the header.
RetainedOf(h) == {i \in 1 .. Len(SegmentsOf(h)) : IsRetained(SegmentsOf(h)[i])}

\* The indices of the retained segments whose decoded name is n.
NamedOf(h, n) ==
    {i \in RetainedOf(h) : NameOf(SegmentsOf(h)[i]).ok /\ NameOf(SegmentsOf(h)[i]).str = n}

\* The rightmost retained segment whose decoded name is n.
LastNamed(h, n) ==
    SegmentsOf(h)[CHOOSE i \in NamedOf(h, n) : \A j \in NamedOf(h, n) : j <= i]

\* The decoded names of the retained segments of the header.
RetainedNames(h) == {NameOf(SegmentsOf(h)[i]).str : i \in RetainedOf(h)}

\* parseCookies was called and returned a table.
ParseReturned == phase = "done" /\ call = "parseCookies" /\ ~outcome.threw

---------------------------------------------------------------------------
(* The claims about parseCookies.                                          *)

\* C1: in the table parseCookies returns, the key set is exactly the set of
\* the decoded names of the segments that have an '=' and a non-empty name
\* (segments without are dropped and change nothing), and each key is
\* mapped to the decoded value of such a segment of that name.
C1_KeysAreRetainedNames ==
    ParseReturned =>
        /\ DOMAIN outcome.value = RetainedNames(header)
        /\ \A n \in DOMAIN outcome.value :
               \E i \in NamedOf(header, n) :
                   outcome.value[n] = ValueOf(SegmentsOf(header)[i]).str

\* C2: when a decoded name occurs in several retained segments, the table
\* parseCookies returns maps it to the value of the rightmost of them.
C2_LastSegmentWins ==
    ParseReturned =>
        \A n \in RetainedNames(header) :
            Cardinality(NamedOf(header, n)) > 1 =>
                /\ HasOwn(outcome.value, n)
                /\ outcome.value[n] = ValueOf(LastNamed(header, n)).str

\* The number of '=' in s.
EqualsIn(s) == Cardinality({i \in 1 .. Len(s) : s[i] = "="})

\* C3: name and value are split at the first '=' only: the value of a name
\* is all the text after the first '=' of its (rightmost) segment, with
\* every further '=' in place, and a segment "name=" maps the name to "".
C3_SplitAtFirstEquals ==
    ParseReturned =>
        \A n \in RetainedNames(header) :
            LET seg == LastNamed(header, n)
            IN  /\ HasOwn(outcome.value, n)
                /\ outcome.value[n] = ValueOf(seg).str
                /\ EqualsIn(RawValue(seg)) = EqualsIn(seg) - 1
                /\ (RawValue(seg) = <<>> => outcome.value[n] = <<>>)

\* s holds whitespace only (or nothing).
IsBlank(s) == \A i \in 1 .. Len(s) : IsTrimmed(s[i])

\* C4: the whitespace around a segment, around its name and around its raw
\* value is trimmed before decoding and the whitespace inside is kept: a
\* name without escapes is a key as it stands between its outer
\* whitespace, likewise its value, and a blank value gives "".
C4_OuterWhitespaceTrimmed ==
    ParseReturned =>
        \A i \in RetainedOf(header) :
            LET seg == SegmentsOf(header)[i]
                key == Stripped(RawName(seg))
            IN  (FirstIndexOf(seg, "%") = 0 /\ seg = LastNamed(header, key)) =>
                    /\ HasOwn(outcome.value, key)
                    /\ outcome.value[key] = Stripped(RawValue(seg))
                    /\ (IsBlank(RawValue(seg)) => outcome.value[key] = <<>>)

\* C5: parseCookies returns the empty table, and throws nothing, when the
\* header is null or the empty string.
C5_NoHeaderEmptyTable ==
    (phase = "done" /\ call = "parseCookies"
        /\ (header.isNull \/ header.text = <<>>)) =>
            outcome = Returned(EmptyObject)

\* parseCookies was called with null.
C5_Witness ==
    /\ phase = "done"
    /\ call = "parseCookies"
    /\ header.isNull
    /\ outcome = Returned(EmptyObject)

---------------------------------------------------------------------------
(* The claims about the accessors.  The named cookie of a header is, as in *)
(* the specification's section 4.2, the entry of that name among its       *)
(* segments.                                                               *)

\* One of the accessors was called and the call is over.
AccessorCalled ==
    phase = "done" /\ call \in {"getApiKeysFromCookie", "getProviderSettingsFromCookie"}

\* The name of the cookie the called accessor reads.
CookieName == IF call = "getApiKeysFromCookie" THEN ApiKeysName ELSE ProvidersName

\* The header has a retained segment of that name.
CookiePresent == NamedOf(header, CookieName) # {}

\* The decoded value of the named cookie, and what JSON.parse makes of it.
CookieText == ValueOf(LastNamed(header, CookieName))
CookieJson == JSONparse(CookieText.str)

\* The named cookie has a value that is valid JSON.
CookieIsJson == CookiePresent /\ CookieText.ok /\ CookieJson.ok

\* C6: when the named cookie decodes to a JSON object, the accessor returns
\* that object as it is.
C6_ObjectReturnedAsIs ==
    (AccessorCalled /\ CookieIsJson /\ KindOf(CookieJson.val) = "object") =>
        outcome = Returned(CookieJson.val.object)

\* C7: when the named cookie decodes to valid JSON that is an array, null
\* or a scalar, each accessor returns the empty mapping.
C7_NonObjectGivesEmpty ==
    (AccessorCalled /\ CookieIsJson /\ KindOf(CookieJson.val) # "object") =>
        outcome = Returned(EmptyObject)

\* C8: when the named cookie is missing from the header, or its value is
\* not valid JSON, the accessor returns the empty mapping and throws
\* nothing.
C8_MissingOrInvalidGivesEmpty ==
    (AccessorCalled
        /\ (~CookiePresent \/ (CookieText.ok /\ ~CookieJson.ok))) =>
            outcome = Returned(EmptyObject)

\* C9: for every header, those with malformed percent-escapes included, the
\* accessors return a mapping and let no error escape.
C9_NoErrorEscapes == AccessorCalled => ~outcome.threw

\* The table the tokenizer makes of the header holds the named cookie.
InTable == ~parseCookies(header).threw /\ HasOwn(parseCookies(header).value, CookieName)

\* The text the table holds for the named cookie is a JSON object.
TableTextIsObject ==
    LET parsed == JSONparse(parseCookies(header).value[CookieName])
    IN  parsed.ok /\ KindOf(parsed.val) = "object"

\* C10, as stated: the accessor reports exactly when the named cookie is in
\* the table and its value fails to decode as JSON or decodes to something
\* that is not an object; a call that reports returns the empty mapping all
\* the same.
C10_ReportsWhenPresentAndBad ==
    AccessorCalled =>
        /\ (console # <<>>) <=> (InTable /\ ~TableTextIsObject)
        /\ (console # <<>> => outcome = Returned(EmptyObject))

\* C10, amended: the accessor reports exactly when the table holds the
\* named cookie with a value that is not empty and that fails to decode as
\* JSON or decodes to something that is not an object; it reports once, and
\* a call that reports returns the empty mapping all the same.
C10_ReportsWhenNonEmptyAndBad ==
    AccessorCalled =>
        /\ (console # <<>>) <=>
               (/\ InTable
                /\ parseCookies(header).value[CookieName] # <<>>
                /\ ~TableTextIsObject)
        /\ (console # <<>> => Len(console) = 1 /\ outcome = Returned(EmptyObject))

\* An accessor found valid JSON that is not an object and reported it.
C10_Witness ==
    /\ AccessorCalled
    /\ InTable
    /\ console # <<>>
    /\ console[1].detail = "object"
    /\ outcome = Returned(EmptyObject)

---------------------------------------------------------------------------
(* The claims about the round trip and about successive calls.             *)

\* c occurs in s.
Occurs(c, s) == \E i \in 1 .. Len(s) : s[i] = c

\* A header was built from pairName and the escaped pairValue and parsed.
TripMade == phase = "done" /\ call = "parseCookies" /\ encodeURIComponent(pairValue).ok

\* The table maps pairName to exactly pairValue.
TripExact ==
    /\ ~outcome.threw
    /\ HasOwn(outcome.value, pairName)
    /\ outcome.value[pairName] = pairValue

\* C11, as stated: for every name and value without ';' and '=', parsing
\* name + '=' + encodeURIComponent(value) gives a table that maps name to
\* exactly value.
C11_RoundTripAnyName ==
    (TripMade
        /\ ~Occurs(";", pairName) /\ ~Occurs("=", pairName)
        /\ ~Occurs(";", pairValue) /\ ~Occurs("=", pairValue)) => TripExact

\* A name that parseCookies takes as it stands: not empty, no whitespace
\* at either end, none of ';', '=' and '%', and not "__proto__".
IsPlainName(s) ==
    /\ s # <<>>
    /\ Stripped(s) = s
    /\ ~Occurs(";", s) /\ ~Occurs("=", s) /\ ~Occurs("%", s)
    /\ s # ProtoName

\* C11, amended: for every such plain name and every value that
\* encodeURIComponent accepts, parsing name + '=' + encodeURIComponent(value)
\* gives a table that maps name to exactly value.
C11_RoundTripPlainName == (TripMade /\ IsPlainName(pairName)) => TripExact

\* A value with a character that is escaped in three bytes came back.
C11_Witness ==
    /\ TripMade
    /\ IsPlainName(pairName)
    /\ Occurs(CharOf(8364), pairValue)
    /\ Occurs("%", header.text)
    /\ TripExact

\* C12: parseCookies keeps no state between calls: calls with equal
\* headers end alike, with structurally equal tables; every call returns
\* an object of its own; and no call changes a table returned earlier.
C12_NoStateBetweenCalls ==
    /\ [](\A i, j \in 1 .. Len(calls) :
             /\ (calls[i].header = calls[j].header =>
                    /\ calls[i].threw = calls[j].threw
                    /\ heap[calls[i].ref] = heap[calls[j].ref])
             /\ (i # j => calls[i].ref # calls[j].ref))
    /\ [][\A i \in 1 .. Len(calls) :
              ~calls[i].threw => heap'[calls[i].ref] = heap[calls[i].ref]]_vars

\* The same header was parsed before and after another one, and gave the
\* same table with entries both times.
C12_Witness ==
    /\ Len(calls) = 3
    /\ calls[1].header = calls[3].header
    /\ calls[1].header # calls[2].header
    /\ ~calls[1].threw
    /\ ~calls[2].threw
    /\ heap[calls[1].ref] # EmptyObject
    /\ heap[calls[2].ref] # heap[calls[1].ref]
    /\ heap[calls[3].ref] = heap[calls[1].ref]

---------------------------------------------------------------------------
(* The claims about the localStorage wrapper.  A step of the caller is     *)
(* known by the call it leaves in last.                                    *)

\* A value with a JSON text of its own.
IsJsonValue(v) == KindOf(v) \notin {"undefined", "circular"}

\* The step is a call of getLocalStorage on a key under which the caller
\* last stored, with success, a JSON value.
ReadsStoredValue ==
    /\ last'.op = "getLocalStorage"
    /\ last'.key \in DOMAIN written
    /\ KindOf(written[last'.key]) = "json"
    /\ IsJsonValue(written[last'.key].json)

\* C13, as stated: after setLocalStorage(k, v) returned true for a JSON
\* value v, getLocalStorage(k) returns a value equal to v, that of the
\* last such set, until a later successful set, remove or clear touches k.
C13_ReadsBackLastSet ==
    [][ReadsStoredValue => last'.returned = written[last'.key].json]_vars

\* C13, amended: the same of every read in which the storage read raises
\* no error.
C13_ReadsBackUnlessReadFails ==
    [][(ReadsStoredValue /\ ~last'.fault) =>
           last'.returned = written[last'.key].json]_vars

\* A nested object was read back.
C13_Witness ==
    /\ last.op = "getLocalStorage"
    /\ ~last.fault
    /\ last.key \in DOMAIN written
    /\ KindOf(written[last.key]) = "json"
    /\ KindOf(written[last.key].json) = "object"
    /\ last.returned = written[last.key].json

\* C14: getLocalStorage(k) leaves the storage as it is and returns null
\* when k is not stored, when the text stored is not valid JSON, and when
\* the storage read raises an error (it ends by returning in every case).
C14_ReadIsHarmless ==
    [][last'.op = "getLocalStorage" =>
           /\ store' = store
           /\ KindOf(last'.returned) \in
                  {"null", "boolean", "number", "string", "array", "object"}
           /\ (\/ last'.key \notin DOMAIN store
               \/ last'.fault
               \/ ~JSONparse(store[last'.key]).ok) => last'.returned = JsonNull]_vars

\* A read raised an error although the key holds valid JSON that is not
\* null: the call returned null and the text is still stored.
C14_Witness ==
    /\ last.op = "getLocalStorage"
    /\ last.fault
    /\ last.key \in DOMAIN store
    /\ JSONparse(store[last.key]).ok
    /\ JSONparse(store[last.key]).val # JsonNull
    /\ last.returned = JsonNull

\* The calls that write.
Writers ==
    {"setLocalStorage", "setLocalStorageRaw", "removeLocalStorage", "clearLocalStorage"}

\* C15: setLocalStorage, setLocalStorageRaw, removeLocalStorage and
\* clearLocalStorage return true exactly when the storage method they call
\* (and, for setLocalStorage, JSON.stringify before it) completed without
\* an error, and false otherwise; they end by returning in every case.
C15_WritersReportCompletion ==
    (last.op \in Writers) =>
        /\ last.returned \in BOOLEAN
        /\ last.returned =
               (/\ client
                /\ ~last.fault
                /\ (last.op = "setLocalStorage" => JSONstringify(last.value).ok))

\* setLocalStorage was handed a value JSON.stringify throws on, the
\* storage was in order, and the call returned false.
C15_Witness ==
    /\ last.op = "setLocalStorage"
    /\ client
    /\ ~last.fault
    /\ last.value = Circular
    /\ last.returned = FALSE

\* After the step, key reads as null through both getters.
ReadsNullAfter(key) ==
    /\ getLocalStorage(key, store', client', FALSE).returned = JsonNull
    /\ getLocalStorageRaw(key, store', client', FALSE).returned = JsonNull

\* The step is a removal that removed its key and nothing else.
RemovedKeyOnly ==
    /\ last'.returned = TRUE
    /\ ReadsNullAfter(last'.key)
    /\ \A k \in StorageKeys \ {last'.key} : getItem(store', k) = getItem(store, k)

\* C16, as stated: removeLocalStorage(k) returns true whether or not k was
\* stored; afterwards both getters return null for k, and the text of
\* every other key is as before.
C16_RemoveAlwaysTrue ==
    [][last'.op = "removeLocalStorage" => RemovedKeyOnly]_vars

\* C16, amended: the same of every removal made where localStorage exists
\* and in which removeItem raises no error.
C16_RemoveTrueUnlessFails ==
    [][(last'.op = "removeLocalStorage" /\ client /\ ~last'.fault) =>
           RemovedKeyOnly]_vars

\* A key was removed and another key is still stored.
C16_Witness ==
    /\ last.op = "removeLocalStorage"
    /\ last.returned = TRUE
    /\ last.key \notin DOMAIN store
    /\ DOMAIN store # {}

\* After a clear that returned true no key is stored and every key reads
\* as null, and a key that is not stored stays so until it is set.
EmptyUntilSet ==
    /\ (last'.op = "clearLocalStorage" /\ last'.returned = TRUE) =>
           /\ DOMAIN store' = {}
           /\ \A k \in StorageKeys : ReadsNullAfter(k)
    /\ \A k \in StorageKeys :
           (/\ k \notin DOMAIN store
            /\ ~(/\ last'.op \in {"setLocalStorage", "setLocalStorageRaw"}
                 /\ last'.key = k
                 /\ last'.returned = TRUE)) => k \notin DOMAIN store'

\* C17, as stated: after clearLocalStorage returned true every key reads
\* as null until it is set again, whatever was stored before; and a clear
\* of an empty storage returns true.
C17_ClearEmptiesAndIsTrue ==
    [][/\ EmptyUntilSet
       /\ (last'.op = "clearLocalStorage" /\ store = <<>>) =>
              last'.returned = TRUE]_vars

\* C17, amended: the same, the clear of an empty storage returning true
\* where localStorage exists and clear raises no error.
C17_ClearEmptiesTrueUnlessFails ==
    [][/\ EmptyUntilSet
       /\ (last'.op = "clearLocalStorage" /\ store = <<>> /\ client /\ ~last'.fault) =>
              last'.returned = TRUE]_vars

\* A clear returned true and the storage is empty, whatever the caller had
\* stored.
C17_Witness ==
    /\ last.op = "clearLocalStorage"
    /\ last.returned = TRUE
    /\ store = <<>>
    /\ written = <<>>

\* The step is a call of getLocalStorageRaw on a key under which the
\* caller last stored, with success, a text or a value that has a JSON
\* text; and what it should return.
ReadsStoredText ==
    /\ last'.op = "getLocalStorageRaw"
    /\ last'.key \in DOMAIN written
    /\ (KindOf(written[last'.key]) = "json" =>
            IsJsonValue(written[last'.key].json))

TextWritten(key) ==
    IF KindOf(written[key]) = "raw" THEN written[key].raw
    ELSE JSONstringify(written[key].json).str

\* C18, as stated: after setLocalStorageRaw(k, s) returned true,
\* getLocalStorageRaw(k) returns exactly s, the empty string included; and
\* after setLocalStorage(k, v) returned true it returns the JSON text of v.
C18_RawReadsExactText ==
    [][ReadsStoredText => last'.returned = JsonString(TextWritten(last'.key))]_vars

\* C18, amended: the same of every raw read in which the storage read
\* raises no error.
C18_RawReadsExactUnlessReadFails ==
    [][(ReadsStoredText /\ ~last'.fault) =>
           last'.returned = JsonString(TextWritten(last'.key))]_vars

\* The empty string was stored raw and read back raw.
C18_Witness ==
    /\ last.op = "getLocalStorageRaw"
    /\ ~last.fault
    /\ last.key \in DOMAIN written
    /\ written[last.key] = [raw |-> <<>>]
    /\ last.returned = JsonString(<<>>)

---------------------------------------------------------------------------
(* The claims about debounce.  A burst is a run of calls of d, each less   *)
(* than the delay after the one before; it is over when the delay has      *)
(* passed after its last call without another call.                        *)

\* No timeout is due and has yet to run.
TimersHaveRun == \A t \in timers : t.due > clock

\* The calls of d that end a burst that is over.
BurstEnds ==
    {i \in 1 .. Len(dCalls) :
        IF i = Len(dCalls) THEN clock - dCalls[i].at >= wait
        ELSE dCalls[i + 1].at - dCalls[i].at >= wait}

\* The k-th of them.
BurstEnd(k) == CHOOSE i \in BurstEnds : Cardinality({j \in BurstEnds : j <= i}) = k

\* fn was invoked once for each burst that is over, in the order of the
\* bursts, with the arguments of the last call of the burst, and not more
\* often than d was called.
OncePerBurst ==
    /\ Len(fnCalls) = Cardinality(BurstEnds)
    /\ \A k \in 1 .. Len(fnCalls) : fnCalls[k].arg = dCalls[BurstEnd(k)].arg
    /\ Len(fnCalls) <= Len(dCalls)

\* C19, as stated: for every delay, once the timeouts have run, every
\* burst that is over has caused exactly one invocation of fn, with the
\* arguments of its last call, the invocations being in burst order.
C19_OncePerBurstAnyDelay == (wait >= 0 /\ TimersHaveRun) => OncePerBurst

\* C19, amended: the same for every delay greater than 0.
C19_OncePerBurstPositiveDelay == (wait > 0 /\ TimersHaveRun) => OncePerBurst

\* Two bursts of two calls each, with different last arguments, caused two
\* invocations.
C19_Witness ==
    /\ wait > 0
    /\ Len(dCalls) = 4
    /\ BurstEnds = {2, 4}
    /\ dCalls[1].arg # dCalls[2].arg
    /\ dCalls[2].arg # dCalls[4].arg
    /\ Len(fnCalls) = 2
    /\ fnCalls[1].arg = dCalls[2].arg
    /\ fnCalls[2].arg = dCalls[4].arg

\* C20: fn is not invoked during a call of d, whatever the delay, 0
\* included, and never earlier than the delay after the most recent call
\* of d; a call of d leaves one timeout set, due a full delay later, for
\* its own arguments.
C20_NeverEarlyNeverDuringCall ==
    /\ [](\A j \in 1 .. Len(fnCalls) :
             /\ fnCalls[j].seen >= 1
             /\ fnCalls[j].at >= dCalls[fnCalls[j].seen].at + wait)
    /\ [][Len(dCalls') > Len(dCalls) =>
              /\ fnCalls' = fnCalls
              /\ timers' = {[id |-> timer', due |-> clock + wait,
                             arg |-> dCalls'[Len(dCalls')].arg]}]_vars

\* With a delay of 0, d was called twice in the same instant with
\* different arguments and fn ran once, afterwards, with the second.
C20_Witness ==
    /\ wait = 0
    /\ Len(dCalls) = 2
    /\ dCalls[1].at = dCalls[2].at
    /\ dCalls[1].arg # dCalls[2].arg
    /\ Len(fnCalls) = 1
    /\ fnCalls[1].arg = dCalls[2].arg

---------------------------------------------------------------------------
(* The claim about several debounced functions.                            *)

\* The timeouts the d-th function has set and that have not run.
PendingOf(pending, d) == {t \in pending : t.arg.by = d}

\* The invocations of fn that the d-th function caused.
InvokedBy(d) == {j \in 1 .. Len(fnCalls) : fnCalls[j].arg.by = d}

\* The last call of the d-th function is either still waiting, in one
\* timeout that is due its own delay after that call and not overdue, or
\* it has caused the last invocation that function caused, at that time.
LastCallHonoured(d) ==
    LET c == made[d].calls[Len(made[d].calls)]
        due == c.at + made[d].wait
    IN  \/ /\ PendingOf(timers, d) = {[id |-> made[d].timer, due |-> due,
                                       arg |-> [by |-> d, arg |-> c.arg]]}
           /\ due >= clock
        \/ /\ PendingOf(timers, d) = {}
           /\ InvokedBy(d) # {}
           /\ LET j == CHOOSE k \in InvokedBy(d) : \A l \in InvokedBy(d) : l <= k
              IN  /\ fnCalls[j].at = due
                  /\ fnCalls[j].arg.arg = c.arg
                  /\ fnCalls[j].seen = Len(made[d].calls)

\* C21: with several debounced functions, whichever fn they wrap, a call
\* of one leaves the timeouts of every other as they are and invokes
\* nothing, and at any time the last call of each function either still
\* waits in a timeout due that function's own delay after it, or has
\* caused an invocation exactly then; every invocation comes that
\* function's own delay after the call of it that caused it.
C21_IndependentTimers ==
    /\ [](\A d \in 1 .. Len(made) :
             /\ made[d].calls # <<>> => LastCallHonoured(d)
             /\ \A j \in InvokedBy(d) :
                    /\ fnCalls[j].seen >= 1
                    /\ fnCalls[j].at = made[d].calls[fnCalls[j].seen].at + made[d].wait
                    /\ fnCalls[j].arg.arg = made[d].calls[fnCalls[j].seen].arg)
    /\ [][\A d \in 1 .. Len(made) :
              Len(made'[d].calls) > Len(made[d].calls) =>
                  /\ fnCalls' = fnCalls
                  /\ \A e \in 1 .. Len(made) :
                         e # d => PendingOf(timers', e) = PendingOf(timers, e)]_vars

\* Two functions with different delays: the second was called while the
\* call of the first was waiting, the first was invoked while the call of
\* the second was waiting or due, and both have been invoked.
C21_Witness ==
    /\ Len(made) = 2
    /\ made[1].wait # made[2].wait
    /\ Len(made[1].calls) = 1
    /\ Len(made[2].calls) = 1
    /\ Len(fnCalls) = 2
    /\ fnCalls[1].arg.by = 1
    /\ fnCalls[2].arg.by = 2
    /\ made[1].calls[1].at < made[2].calls[1].at
    /\ made[2].calls[1].at < fnCalls[1].at
    /\ fnCalls[1].at <= fnCalls[2].at

---------------------------------------------------------------------------
(* The claims about the lock checks.  A step of the caller is known by the *)
(* call it leaves in lockLast; the window and the mocks are, during the    *)
(* call, what they were before it.                                         *)

\* The chat a call is about: the one given, or else that of the URL.
ChatOfCall(c) == IF c.rest = <<>> THEN getCurrentChatId(win) ELSE c.rest[1]

\* A mock answers that the thing is locked.
AnswersLocked(a) == a # Throws /\ a.locked

C23_TrueIffItemOfThatChat ==
    [][(lockLast' # lockLast /\ lockLast'.op = "hasLockedItems") =>
        (lockLast'.returned = TRUE <=>
            /\ lockedFiles.getLockedItems # Throws
            /\ \E item \in lockedFiles.getLockedItems.items :
                   item.chatId = ChatOfCall(lockLast'))]_vars

\* On the page of chat-1, with an item of that chat locked and one of
\* another, hasLockedItems('chat-4') returned false.
C23_Witness ==
    /\ lockLast.op = "hasLockedItems"
    /\ lockLast.rest = <<"chat-4">>
    /\ lockLast.returned = FALSE
    /\ getCurrentChatId(win) = "chat-1"
    /\ lockedFiles.getLockedItems = [items |-> LockableItems]

---------------------------------------------------------------------------
(* The later claims about the cookie module.                               *)

\* A text with a malformed percent-escape: one that percent-decoding fails
\* on (the specification's section 4.1).
IsMalformed(s) == ~decodeURIComponent(s).ok

\* The retained segments of the header with a malformed escape in the name
\* or in the value.
MalformedOf(h) ==
    {i \in RetainedOf(h) :
        \/ IsMalformed(Stripped(RawName(SegmentsOf(h)[i])))
        \/ IsMalformed(Stripped(RawValue(SegmentsOf(h)[i])))}

\* C24: parseCookies throws exactly when some segment with an '=' and a
\* non-empty name has a malformed percent-escape in its name or value; a
\* malformed escape in a dropped segment makes it throw nothing; and when
\* it throws it returns no table, not a partial one either.
C24_ThrowsIffRetainedMalformed ==
    (phase = "done" /\ call = "parseCookies") =>
        /\ outcome.threw <=> MalformedOf(header) # {}
        /\ outcome.threw => outcome = Thrown

\* The first segment is retained and well-formed, a later one is retained
\* and malformed: the call threw.
C24_Witness ==
    /\ phase = "done"
    /\ call = "parseCookies"
    /\ outcome.threw
    /\ 1 \in RetainedOf(header)
    /\ 1 \notin MalformedOf(header)
    /\ MalformedOf(header) # {}

\* The entry of name n in the table of the header, as the segments give
\* it: nothing when no retained segment has that name, else the decoded
\* value of the rightmost such segment.
EntryOf(h, n) ==
    IF NamedOf(h, n) = {} THEN [present |-> FALSE, text |-> URIError]
    ELSE [present |-> TRUE, text |-> ValueOf(LastNamed(h, n))]

\* The cookie the called accessor does not read.
OtherCookieName == IF call = "getApiKeysFromCookie" THEN ProvidersName ELSE ApiKeysName

\* What the other cookie may hold: a JSON object, text that is not JSON
\* (the 'corrupted' of the suite), nothing, and a malformed escape.
OtherCookieValues ==
    { <<"{", "}">>, <<"c", "o", "r", "r", "u", "p", "t", "e", "d">>, <<>>, <<"%">> }

\* The header with the other cookie put after it, or before it.
WithOtherCookie(h) ==
    {StringHeader(h.text \o <<";", " ">> \o OtherCookieName \o <<"=">> \o v) :
        v \in OtherCookieValues}
    \cup {StringHeader(OtherCookieName \o <<"=">> \o v \o <<";", " ">> \o h.text) :
        v \in OtherCookieValues}

\* What the called accessor does with another header.
SameAccessor(h) ==
    IF call = "getApiKeysFromCookie" THEN getApiKeysFromCookie(h)
    ELSE getProviderSettingsFromCookie(h)

\* C25, as stated: an accessor gives equal results for two headers whose
\* tables agree on the entry it reads, whatever the other cookie holds,
\* corrupt or not: here for the header of the call and the same header with
\* the other cookie added.
C25_DependsOnOwnEntryOnly ==
    (AccessorCalled /\ ~header.isNull) =>
        \A h \in WithOtherCookie(header) :
            EntryOf(h, CookieName) = EntryOf(header, CookieName) =>
                /\ SameAccessor(h).threw = outcome.threw
                /\ SameAccessor(h).value = outcome.value

\* The same for the pairs of headers that parseCookies makes a table of.
C25_DependsOnOwnEntryGivenTables ==
    (AccessorCalled /\ ~header.isNull /\ ~outcome.threw) =>
        \A h \in WithOtherCookie(header) :
            (/\ ~parseCookies(h).threw
             /\ EntryOf(h, CookieName) = EntryOf(header, CookieName)) =>
                /\ ~SameAccessor(h).threw
                /\ SameAccessor(h).value = outcome.value
                /\ SameAccessor(h).reports = console

---------------------------------------------------------------------------
(* The claim about the availability of the storage.  A step that leaves   *)
(* the availability as it is, is a call.                                   *)

\* The storage differs from what it was at most under the key.
SameButFor(key) ==
    /\ (DOMAIN store') \ {key} = (DOMAIN store) \ {key}
    /\ \A k \in (DOMAIN store) \ {key} : store'[k] = store[k]

\* A call made where there is a localStorage, whose storage method raises
\* no error, does what the function is for.
OperatesNormally(c) ==
    /\ c.op = "getLocalStorageRaw" =>
           /\ store' = store
           /\ c.returned = IF c.key \in DOMAIN store THEN JsonString(store[c.key])
                           ELSE JsonNull
    /\ c.op = "getLocalStorage" =>
           /\ store' = store
           /\ c.key \notin DOMAIN store => c.returned = JsonNull
    /\ c.op = "setLocalStorageRaw" =>
           /\ c.returned = TRUE
           /\ c.key \in DOMAIN store'
           /\ store'[c.key] = c.value
           /\ SameButFor(c.key)
    /\ c.op = "setLocalStorage" =>
           /\ IsJsonValue(c.value) => c.returned = TRUE
           /\ c.returned = TRUE => c.key \in DOMAIN store' /\ SameButFor(c.key)
           /\ c.returned = FALSE => store' = store
    /\ c.op = "removeLocalStorage" =>
           /\ c.returned = TRUE
           /\ c.key \notin DOMAIN store'
           /\ SameButFor(c.key)
    /\ c.op = "clearLocalStorage" =>
           /\ c.returned = TRUE
           /\ store' = <<>>

\* C26: in every call made while window or localStorage is undefined,
\* also after calls that found them, getLocalStorage and getLocalStorageRaw
\* return null and the four mutators return false, the storage is left as
\* it is and no error is raised or logged; and every call made while they
\* are defined, also after calls that did not find them, operates normally.
C26_AvailabilityAskedInEveryCall ==
    [][(client' = client /\ last'.op # "none") =>
          /\ ~client =>
                 /\ IF last'.op \in {"getLocalStorage", "getLocalStorageRaw"}
                    THEN last'.returned = JsonNull
                    ELSE last'.returned = FALSE
                 /\ store' = store
                 /\ ~last'.logged
          /\ (client /\ ~last'.fault) => OperatesNormally(last')]_vars

\* After a time without window, a raw set stored its text, beside a text
\* stored earlier.
C26_Witness ==
    /\ wasAway
    /\ client
    /\ last.op = "setLocalStorageRaw"
    /\ last.returned = TRUE
    /\ last.value # <<>>
    /\ DOMAIN store = StorageKeys
    /\ store[last.key] = last.value

---------------------------------------------------------------------------
(* The claims about InlineModificationBox.  A step is known by the event   *)
(* it leaves in boxLast.                                                   *)

\* t ends with s.
EndsWith(t, s) == Len(t) >= Len(s) /\ SubSeq(t, Len(t) - Len(s) + 1, Len(t)) = s

\* t begins with s.
BeginsWith(t, s) == Len(t) >= Len(s) /\ SubSeq(t, 1, Len(s)) = s

\* The handler called onClose.
ClosedBy(did) == \E i \in 1 .. Len(did) : did[i] = CallOnClose

\* C27: a send request, by the Send button or by Enter without Shift, with
\* an input that is not empty after trimming calls onSend once, with a
\* message made of the description of the element and of the input, then
\* clears the input, then calls onClose, and does nothing else; with an
\* empty input or one of whitespace only it calls neither and leaves the
\* input as it is.
C27_SendOnceThenClearThenClose ==
    [][boxLast'.event \in {"enter", "click"} =>
          IF Stripped(input) # <<>>
          THEN /\ Len(boxLast'.did) = 3
               /\ boxLast'.did[1].does = "onSend"
               /\ BeginsWith(boxLast'.did[1].with,
                             MODIFY_THE_SELECTED \o ToLowerCase(element.tagName))
               /\ EndsWith(boxLast'.did[1].with, ELEMENT_COLON \o input)
               /\ boxLast'.did[2] = SetInput(<<>>)
               /\ boxLast'.did[3] = CallOnClose
               /\ input' = <<>>
          ELSE /\ boxLast'.did = <<>>
               /\ input' = input]_vars

\* Enter was pressed on an input with a blank before its text, for an
\* element with an id and classes: the message went out and the input is
\* empty.
C27_Witness ==
    /\ boxLast.event = "enter"
    /\ boxLast.typed = <<" ", "a">>
    /\ element.id # <<>>
    /\ Len(boxLast.did) = 3
    /\ boxLast.did[1] =
           CallOnSend(MODIFY_THE_SELECTED \o <<"d", "i", "v", "#", "m", ".", "b">>
                          \o ELEMENT_COLON \o <<" ", "a">>)
    /\ input = <<>>

C29_HiddenBoxHasNoInput ==
    /\ [](~IsRendered(isVisible, element) => (input = <<>> /\ ~isAnimating))
    /\ [][(~IsRendered(isVisible, element) /\ IsRendered(isVisible', element')) =>
              input' = <<>>]_vars

\* The box was hidden while text was typed and not sent: the input is
\* empty.
C29_Witness ==
    /\ boxLast.event = "hide"
    /\ boxLast.typed # <<>>
    /\ element # NoElement
    /\ input = <<>>
    /\ ~isAnimating

---------------------------------------------------------------------------
(* The claim about the place of the box.  A step that leaves the rectangle *)
(* and the window as they are, is a call of getBoxPosition.                *)

\* The box at p, 400 by 120, is on the screen with the padding of 20.
OnScreen(p, size) ==
    /\ 20 <= p.left
    /\ p.left + 400 <= size.innerWidth - 20
    /\ 0 <= p.top
    /\ p.top + 120 <= size.innerHeight - 20

\* C30: for every rectangle of the element and every size of the window,
\* the position getBoxPosition computes keeps the box of 400 by 120 on the
\* screen with the padding of 20: 20 <= left, left + 400 <= innerWidth -
\* 20, 0 <= top and top + 120 <= innerHeight - 20.
C30_BoxStaysOnScreen ==
    [][(rect' = rect /\ innerSize' = innerSize) => OnScreen(position', innerSize)]_vars

\* What holds of the left edge: in a window at least 440 wide it keeps the
\* padding on both sides.
C30_LeftStaysOnScreenInWideWindow ==
    [][(rect' = rect /\ innerSize' = innerSize /\ innerSize.innerWidth >= 440) =>
          /\ 20 <= position'.left
          /\ position'.left + 400 <= innerSize.innerWidth - 20]_vars

===========================================================================
